---- MODULE Spec2Model ----
(***************************************************************************)
(* Workflow state machine of the scrum-game server: the game-state store   *)
(* (slots / queue / wipLimit board), the D6 roll resolution engine and the *)
(* game service that orchestrates a roll.                                  *)
(***************************************************************************)
EXTENDS Integers, Sequences, FiniteSets, TLC

VARIABLES
    sessions,     \* GameStateStore.sessions: gameId -> GameSession
    lastResult,   \* what the last store / service call returned
    request,      \* the D6RollRequest handed to DiceService.rollD6
    rollResult    \* the D6RollResult DiceService.rollD6 returned

vars == <<sessions, lastResult, request, rollResult>>

----------------------------------------------------------------------------
(* Bounds of the model *)

\* card ids are 1..MaxCards; at most MaxCards cards are ever put on a board
MaxCards == 2

\* advanceTurn is called while currentTurn is below MaxTurn in a whole game
MaxTurn == 2

\* advanceTurn is called while currentTurn is below MaxDebtTurn where the
\* technical-debt bonus is followed past its expiry turn
MaxDebtTurn == 4

\* advanceTurn is called while currentTurn is below LastTurn where a session
\* is run past its maxTurns
LastTurn == 12

\* ids the store can hand out for sessions
GameIds == {"g1"}

\* ids of the cards callers add to a board
CardIds == 1..MaxCards

----------------------------------------------------------------------------
(* Types (types/game.ts) *)

BOARD_COLUMNS ==
    <<"Funnel", "ProductBacklog", "SprintBacklog", "Implementation",
      "Integration", "Testing", "PreDeployment", "Production">>

BoardColumn == {BOARD_COLUMNS[i] : i \in 1..Len(BOARD_COLUMNS)}

CardEffort == {1, 3, 5}

DiceValue == 1..6

\* Array.prototype.indexOf, 0-based, -1 when absent
IndexOf(arr, x) ==
    IF \E i \in 1..Len(arr) : arr[i] = x
    THEN (CHOOSE i \in 1..Len(arr) : arr[i] = x /\ \A j \in 1..(i - 1) : arr[j] # x) - 1
    ELSE 0 - 1

\* arr[i] with a 0-based index
At(arr, i) == arr[i + 1]

\* cycleTime: number | null.  null is the empty set, n is {n}.
NullCycleTime == {}

\* a card as a caller builds it before placing it (gameService.startGame's samples)
NewCard(id, effort, column) ==
    [id |-> id, effort |-> effort, status |-> column, createdTurn |-> 1,
     revertCount |-> 0, currentColumn |-> column, cycleTime |-> NullCycleTime]

----------------------------------------------------------------------------
(* DiceService (services/dice.service.ts) *)

\* DiceService.generateRoll: Math.floor(Math.random() * 6) + 1
generateRoll == 1..6

DiceColumns == BOARD_COLUMNS

\* getNextColumn wrapping round to the first stage
getNextColumn_Wraps(column) ==
    LET currentIndex == IndexOf(DiceColumns, column)
    IN  IF currentIndex = 0 - 1 THEN column
        ELSE At(DiceColumns, (currentIndex + 1) % Len(DiceColumns))

getNextColumn(column) ==
    LET currentIndex == IndexOf(DiceColumns, column)
    IN  IF currentIndex = 0 - 1 \/ currentIndex = Len(DiceColumns) - 1
        THEN column
        ELSE At(DiceColumns, currentIndex + 1)

getPreviousColumn(column) ==
    LET currentIndex == IndexOf(DiceColumns, column)
    IN  IF currentIndex <= 0
        THEN column
        ELSE At(DiceColumns, currentIndex - 1)

D6Result(roll, from, to, effortApplied, causesRevert, canMitigation) ==
    [rollValue |-> roll,
     destinationColumn |-> to,
     cardMovement |-> [from |-> from, to |-> to, effortApplied |-> effortApplied,
                       causesRevert |-> causesRevert],
     canMitigation |-> canMitigation]

\* a critical success that only advances one stage
handleCriticalSuccess_Next(card, currentColumn) ==
    D6Result(1, currentColumn, getNextColumn(currentColumn), card.effort, FALSE, FALSE)

handleCriticalSuccess(card, currentColumn) ==
    D6Result(1, currentColumn, "Production", card.effort, FALSE, FALSE)

handleStandardProgress(card, currentColumn, roll) ==
    LET nextColumn == getNextColumn(currentColumn)
    IN  D6Result(roll, currentColumn, nextColumn, card.effort, FALSE, FALSE)

\* scope creep that reverts one stage only
handleScopeCreep_Previous(card, currentColumn) ==
    D6Result(4, currentColumn, getPreviousColumn(currentColumn), 0, TRUE, FALSE)

handleScopeCreep(card, currentColumn) ==
    D6Result(4, currentColumn, "ProductBacklog", 0, TRUE, FALSE)

\* a technical impediment whose mitigation test is "tokens were ever handed out"
handleTechnicalImpediment_Total(card, currentColumn, scrumMasterState) ==
    LET canUseMitigation == scrumMasterState.tokensTotal > 0
        targetColumn == IF canUseMitigation
                        THEN getPreviousColumn(currentColumn)
                        ELSE "Implementation"
    IN  D6Result(5, currentColumn, targetColumn, 0, TRUE, canUseMitigation)

handleTechnicalImpediment(card, currentColumn, scrumMasterState) ==
    LET canUseMitigation == scrumMasterState.tokensAvailable > 0
        targetColumn == IF canUseMitigation
                        THEN getPreviousColumn(currentColumn)
                        ELSE "Implementation"
    IN  D6Result(5, currentColumn, targetColumn, 0, TRUE, canUseMitigation)

\* a critical failure that lets a token mitigate it
handleCriticalFailure_Token(card, currentColumn, scrumMasterState) ==
    LET tdBonus == scrumMasterState.technicalDebtActive
                   \/ scrumMasterState.tokensAvailable > 0
        targetColumn == IF tdBonus THEN "Implementation" ELSE "SprintBacklog"
    IN  D6Result(6, currentColumn, targetColumn, 0, TRUE,
                 scrumMasterState.tokensAvailable > 0)

handleCriticalFailure(card, currentColumn, scrumMasterState) ==
    LET tdBonus == scrumMasterState.technicalDebtActive
                   /\ scrumMasterState.technicalDebtExpiresAtTurn > 0
        targetColumn == IF tdBonus THEN "Implementation" ELSE "SprintBacklog"
    IN  D6Result(6, currentColumn, targetColumn, 0, TRUE, FALSE)

\* the switch of DiceService.rollD6 on the generated roll
resolveRoll(roll, req) ==
    CASE roll = 1 -> handleCriticalSuccess(req.card, req.currentColumn)
      [] roll \in {2, 3} -> handleStandardProgress(req.card, req.currentColumn, roll)
      [] roll = 4 -> handleScopeCreep(req.card, req.currentColumn)
      [] roll = 5 -> handleTechnicalImpediment(req.card, req.currentColumn,
                                               req.scrumMasterState)
      [] roll = 6 -> handleCriticalFailure(req.card, req.currentColumn,
                                           req.scrumMasterState)

NoRoll == D6Result(0, "Funnel", "Funnel", 0, FALSE, FALSE)

----------------------------------------------------------------------------
(* BoardService (board.service.ts) *)

\* the "none" BoardService's topology queries return (null)
NoColumn == "null"

BoardService_getPreviousColumn(currentColumn) ==
    LET currentIndex == IndexOf(BOARD_COLUMNS, currentColumn)
    IN  IF currentIndex <= 0
        THEN NoColumn
        ELSE At(BOARD_COLUMNS, currentIndex - 1)

BoardService_getNextColumn(currentColumn) ==
    LET currentIndex == IndexOf(BOARD_COLUMNS, currentColumn)
    IN  IF currentIndex = 0 - 1 \/ currentIndex = Len(BOARD_COLUMNS) - 1
        THEN NoColumn
        ELSE At(BOARD_COLUMNS, currentIndex + 1)

\* the loop "for (i = 1; i <= steps && currentIndex - i >= 0; i++)" from i on
RECURSIVE previousColumnsFrom(_, _, _)
previousColumnsFrom(currentIndex, steps, i) ==
    IF i <= steps /\ currentIndex - i >= 0
    THEN <<At(BOARD_COLUMNS, currentIndex - i)>>
         \o previousColumnsFrom(currentIndex, steps, i + 1)
    ELSE <<>>

\* the same loop stopping one stage before the first
BoardService_getPreviousColumns_SkipsFirst(currentColumn, steps) ==
    SelectSeq(previousColumnsFrom(IndexOf(BOARD_COLUMNS, currentColumn), steps, 1),
              LAMBDA column : column # BOARD_COLUMNS[1])

BoardService_getPreviousColumns(currentColumn, steps) ==
    previousColumnsFrom(IndexOf(BOARD_COLUMNS, currentColumn), steps, 1)

\* BoardService.isValidMovement: every movement is allowed
isValidMovement(from, to) == TRUE

\* BoardService.canAcceptCard: every column accepts every card
canAcceptCard(column, card) == TRUE

\* BoardService.applyMovement: an updated COPY of the card
applyMovement(card, toColumn, result) ==
    LET moved == [card EXCEPT !.currentColumn = toColumn, !.status = toColumn]
        timed == IF toColumn = "Production" /\ card.cycleTime = NullCycleTime
                 THEN [moved EXCEPT !.cycleTime = {1}]
                 ELSE moved
    IN  IF result.cardMovement.causesRevert
        THEN [timed EXCEPT !.revertCount = @ + 1]
        ELSE timed

\* moveCard spending a token on every move
BoardService_moveCard_SpendsAlways(card, fromColumn, toColumn, result, scrumMasterState) ==
    [success |-> TRUE, card |-> applyMovement(card, toColumn, result),
     tokensUsed |-> 1, technicalDebtActivated |-> FALSE]

\* moveCard spending a token whenever the outcome can be mitigated
BoardService_moveCard_Mitigates(card, fromColumn, toColumn, result, scrumMasterState) ==
    [success |-> TRUE, card |-> applyMovement(card, toColumn, result),
     tokensUsed |-> IF result.canMitigation THEN 1 ELSE 0,
     technicalDebtActivated |-> FALSE]

\* BoardService.moveCard: validates, builds the updated copy, reports the
\* tokens used and the technical debt activated (both always "none")
BoardService_moveCard(card, fromColumn, toColumn, result, scrumMasterState) ==
    IF ~isValidMovement(fromColumn, toColumn) \/ ~canAcceptCard(toColumn, card)
    THEN [success |-> FALSE, card |-> card, tokensUsed |-> 0,
          technicalDebtActivated |-> FALSE]
    ELSE [success |-> TRUE, card |-> applyMovement(card, toColumn, result),
          tokensUsed |-> 0, technicalDebtActivated |-> FALSE]

----------------------------------------------------------------------------
(* GameStateStore (game-state.store.ts, the slots / queue board) *)

\* wipLimit of the two stages the store treats as unlimited
UnlimitedWip == 999

\* a column of the board.  createGame builds every column as the object
\* {slots, queue, wipLimit}; isArray marks a column that holds a bare Card[]
\* instead (then slots, queue and wipLimit are undefined and items is the array)
ColumnState(wipLimit) ==
    [isArray |-> FALSE, items |-> <<>>, slots |-> <<>>, queue |-> <<>>,
     wipLimit |-> wipLimit]

InitialColumns ==
    [c \in BoardColumn |->
        CASE c = "Funnel"         -> ColumnState(UnlimitedWip)
          [] c = "ProductBacklog" -> ColumnState(1)
          [] c = "SprintBacklog"  -> ColumnState(3)
          [] c = "Implementation" -> ColumnState(3)
          [] c = "Integration"    -> ColumnState(1)
          [] c = "Testing"        -> ColumnState(2)
          [] c = "PreDeployment"  -> ColumnState(6)
          [] c = "Production"     -> ColumnState(UnlimitedWip)]

InitialScrumMasterState ==
    [tokensAvailable |-> 3, tokensTotal |-> 3, tokensUsed |-> 0,
     technicalDebtActive |-> FALSE, technicalDebtExpiresAtTurn |-> 0]

\* the roster gameService.startGame passes to createGame when its caller
\* supplies none: eight players, one per role
defaultPlayers ==
    <<[id |-> 1, role |-> "Stakeholder"], [id |-> 2, role |-> "ProductOwner"],
      [id |-> 3, role |-> "ScrumMaster"], [id |-> 4, role |-> "Developer-Impl"],
      [id |-> 5, role |-> "Developer-Intg"], [id |-> 6, role |-> "QATester"],
      [id |-> 7, role |-> "ReleaseManager"], [id |-> 8, role |-> "Customer"]>>

\* the GameSession createGame stores; revertEvents is the revertEvents list
\* of the metrics record the board state is created with, createdAt the clock
\* reading (0 where the clock is not followed)
NewSession(sessionId) ==
    [id |-> sessionId,
     columns |-> InitialColumns,
     currentTurn |-> 1,
     currentPhase |-> "SprintPlanning",
     scrumMasterState |-> InitialScrumMasterState,
     maxTurns |-> 10,
     players |-> defaultPlayers,
     revertEvents |-> <<>>,
     createdAt |-> 0,
     isActive |-> TRUE]

\* ids of the three sample cards gameService.startGame builds
SampleCardIds == {101, 102, 103}

sampleCards ==
    <<NewCard(101, 5, "Funnel"), NewCard(102, 3, "Funnel"), NewCard(103, 5, "Funnel")>>

\* gameService.startGame: the session createGame stored, its Funnel column
\* then replaced by the bare array of sample cards
StartedSession(sessionId) ==
    [NewSession(sessionId) EXCEPT
        !.columns["Funnel"] = [isArray |-> TRUE, items |-> sampleCards,
                               slots |-> <<>>, queue |-> <<>>, wipLimit |-> 0]]

\* arr.findIndex(c => c.id === cardId), 0-based, -1 when absent
FindIndex(arr, cardId) ==
    IF \E i \in 1..Len(arr) : arr[i].id = cardId
    THEN (CHOOSE i \in 1..Len(arr) :
             arr[i].id = cardId /\ \A j \in 1..(i - 1) : arr[j].id # cardId) - 1
    ELSE 0 - 1

\* arr.splice(i, 1): arr without the element at 0-based index i
Splice(arr, i) == SubSeq(arr, 1, i) \o SubSeq(arr, i + 2, Len(arr))

\* what a store call did: it returned ok, or it threw a TypeError (threw);
\* columns is the board it left behind
Returned(ok, columns) == [ok |-> ok, threw |-> FALSE, columns |-> columns]
Threw(columns) == [ok |-> FALSE, threw |-> TRUE, columns |-> columns]

\* addCard pushing onto the slots whatever their length
addCardColumns_NoLimit(columns, column, card) ==
    IF columns[column].isArray
    THEN Threw(columns)
    ELSE Returned(TRUE, [columns EXCEPT ![column].slots = Append(@, card)])

\* an addCard that refuses the card when the slots are full
addCardColumns_Rejects(columns, column, card) ==
    LET columnState == columns[column]
    IN  IF columnState.isArray
        THEN Threw(columns)
        ELSE IF Len(columnState.slots) < columnState.wipLimit
             THEN Returned(TRUE, [columns EXCEPT ![column].slots = Append(@, card)])
             ELSE Returned(FALSE, columns)

\* lines 352-357 of addCard: slots first, queue when the slots are full
addCardColumns(columns, column, card) ==
    LET columnState == columns[column]
    IN  IF columnState.isArray
        THEN Threw(columns)
        ELSE IF Len(columnState.slots) < columnState.wipLimit
             THEN Returned(TRUE, [columns EXCEPT ![column].slots = Append(@, card)])
             ELSE Returned(TRUE, [columns EXCEPT ![column].queue = Append(@, card)])

\* lines 369-400 of moveCard
moveCardColumns(columns, cardId, fromColumn, toColumn) ==
    LET fromColumnState == columns[fromColumn]
    IN  IF fromColumnState.isArray
        THEN Threw(columns)
        ELSE
        LET slotIndex == FindIndex(fromColumnState.slots, cardId)
            isInSlots == slotIndex # 0 - 1
            cardIndex == IF isInSlots THEN slotIndex
                         ELSE FindIndex(fromColumnState.queue, cardId)
        IN  IF cardIndex = 0 - 1
            THEN Returned(FALSE, columns)
            ELSE
            LET found == IF isInSlots THEN At(fromColumnState.slots, cardIndex)
                         ELSE At(fromColumnState.queue, cardIndex)
                removed == IF isInSlots
                           THEN [columns EXCEPT ![fromColumn].slots = Splice(@, cardIndex)]
                           ELSE [columns EXCEPT ![fromColumn].queue = Splice(@, cardIndex)]
                card == [found EXCEPT !.currentColumn = toColumn, !.status = toColumn]
                toColumnState == removed[toColumn]
            IN  IF toColumnState.isArray
                THEN Threw(removed)
                ELSE IF Len(toColumnState.slots) < toColumnState.wipLimit
                     THEN Returned(TRUE, [removed EXCEPT ![toColumn].slots = Append(@, card)])
                     ELSE Returned(TRUE, [removed EXCEPT ![toColumn].queue = Append(@, card)])

\* the loop of removeCard over Object.values(columns), from column number i on
RECURSIVE removeCardFrom(_, _, _)
removeCardFrom(columns, cardId, i) ==
    IF i > Len(BOARD_COLUMNS)
    THEN Returned(FALSE, columns)
    ELSE
    LET column == BOARD_COLUMNS[i]
        columnState == columns[column]
    IN  IF columnState.isArray
        THEN Threw(columns)
        ELSE IF FindIndex(columnState.slots, cardId) # 0 - 1
             THEN Returned(TRUE, [columns EXCEPT ![column].slots =
                                     Splice(@, FindIndex(columnState.slots, cardId))])
             ELSE IF FindIndex(columnState.queue, cardId) # 0 - 1
                  THEN Returned(TRUE, [columns EXCEPT ![column].queue =
                                          Splice(@, FindIndex(columnState.queue, cardId))])
                  ELSE removeCardFrom(columns, cardId, i + 1)

removeCardColumns(columns, cardId) == removeCardFrom(columns, cardId, 1)

----------------------------------------------------------------------------
(* GameStateStore (game-state.store.ts, the Card[] board) *)

\* a column of the Card[] board: a bare array of cards
ArrayColumn(cards) ==
    [isArray |-> TRUE, items |-> cards, slots |-> <<>>, queue |-> <<>>,
     wipLimit |-> 0]

\* the GameSession createGame stores when every column is a Card[]
NewArraySession(sessionId) ==
    [NewSession(sessionId) EXCEPT !.columns = [c \in BoardColumn |-> ArrayColumn(<<>>)]]

\* gameService.startGame on the Card[] board: Funnel holds the sample cards
StartedArraySession(sessionId) ==
    [NewArraySession(sessionId) EXCEPT !.columns["Funnel"] = ArrayColumn(sampleCards)]

\* "players || [the default roster]": players is {} when the caller supplies
\* none and {roster} when it supplies roster
Roster(players) ==
    IF players = {} THEN defaultPlayers ELSE CHOOSE roster \in players : TRUE

\* gameService.startGame(players) on the Card[] board
StartedArraySessionFor(sessionId, players) ==
    [StartedArraySession(sessionId) EXCEPT !.players = Roster(players)]

\* GameStateStore.addCard on the Card[] board: the card is pushed on the array
arrayAddCardColumns(columns, column, card) ==
    [columns EXCEPT ![column].items = Append(@, card)]

\* lines 117-128 of moveCard on the Card[] board
arrayMoveCardColumns(columns, cardId, fromColumn, toColumn) ==
    LET fromCards == columns[fromColumn]
    IN  IF ~fromCards.isArray
        THEN Threw(columns)
        ELSE
        LET cardIndex == FindIndex(fromCards.items, cardId)
        IN  IF cardIndex = 0 - 1
            THEN Returned(FALSE, columns)
            ELSE
            LET found == At(fromCards.items, cardIndex)
                removed == [columns EXCEPT ![fromColumn].items = Splice(@, cardIndex)]
                card == [found EXCEPT !.currentColumn = toColumn, !.status = toColumn]
            IN  IF ~removed[toColumn].isArray
                THEN Threw(removed)
                ELSE Returned(TRUE, [removed EXCEPT ![toColumn].items = Append(@, card)])

----------------------------------------------------------------------------
(* GameStateStore: turn, phase, pool and end of a session *)

\* the phases array of advancePhase
phases == <<"SprintPlanning", "Execution", "SprintReview", "Retrospective">>

\* advancePhase going round to the first phase after the last
advancePhase_Wraps(session) ==
    LET currentIndex == IndexOf(phases, session.currentPhase)
    IN  [ok |-> TRUE,
         session |-> [session EXCEPT
                        !.currentPhase = At(phases, (currentIndex + 1) % Len(phases))]]

\* GameStateStore.advancePhase on a stored session: what it returns and the
\* session it leaves
advancePhase(session) ==
    LET currentIndex == IndexOf(phases, session.currentPhase)
    IN  IF currentIndex < Len(phases) - 1
        THEN [ok |-> TRUE,
              session |-> [session EXCEPT !.currentPhase = At(phases, currentIndex + 1)]]
        ELSE [ok |-> FALSE, session |-> session]

\* advanceTurn starting the next turn in the first phase
advanceTurn_ResetsPhase(session) ==
    [session EXCEPT !.currentTurn = @ + 1, !.currentPhase = At(phases, 0)]

\* advanceTurn ending the technical-debt bonus once its expiry turn is passed
advanceTurn_ExpiresDebt(session) ==
    LET next == session.currentTurn + 1
    IN  IF next > session.scrumMasterState.technicalDebtExpiresAtTurn
        THEN [session EXCEPT !.currentTurn = next,
                             !.scrumMasterState.technicalDebtActive = FALSE]
        ELSE [session EXCEPT !.currentTurn = next]

\* GameStateStore.advanceTurn on a stored session
advanceTurn(session) == [session EXCEPT !.currentTurn = @ + 1]

\* an endGame that flips the active flag
endGame_Toggles(session) == [session EXCEPT !.isActive = ~@]

\* GameStateStore.endGame on a stored session
endGame(session) == [session EXCEPT !.isActive = FALSE]

\* GameStateStore.updateScrumMasterState: { ...scrumMasterState, ...updates }
updateScrumMasterState(session, updates) ==
    [session EXCEPT !.scrumMasterState =
        [k \in DOMAIN session.scrumMasterState |->
            IF k \in DOMAIN updates THEN updates[k] ELSE session.scrumMasterState[k]]]

----------------------------------------------------------------------------
(* ValidationService and game service (validation.service.ts, game.service.ts) *)

\* the loop "for (const cards of Object.values(columns) as Card[][])
\* { cards.find(...) }" shared by findCardById and validateCardExists, from
\* column number i on: a column that is no array has no find method, so the
\* call throws a TypeError.  card is <<>> for "not found", <<c>> for c.
RECURSIVE findInColumns(_, _, _)
findInColumns(cardId, columns, i) ==
    IF i > Len(BOARD_COLUMNS)
    THEN [threw |-> FALSE, card |-> <<>>]
    ELSE
    LET cards == columns[BOARD_COLUMNS[i]]
    IN  IF ~cards.isArray
        THEN [threw |-> TRUE, card |-> <<>>]
        ELSE IF FindIndex(cards.items, cardId) # 0 - 1
             THEN [threw |-> FALSE,
                   card |-> <<At(cards.items, FindIndex(cards.items, cardId))>>]
             ELSE findInColumns(cardId, columns, i + 1)

findCardById(cardId, columns) == findInColumns(cardId, columns, 1)

validateCardExists(cardId, columns) ==
    LET r == findInColumns(cardId, columns, 1)
    IN  [threw |-> r.threw, isValid |-> ~r.threw /\ r.card # <<>>]

\* ValidationService.COLUMN_CAPACITIES in effort points: {} is Infinity, {n} is n
COLUMN_CAPACITIES ==
    [c \in BoardColumn |->
        CASE c = "SprintBacklog"  -> {20}
          [] c = "Implementation" -> {13}
          [] c = "Integration"    -> {8}
          [] c = "Testing"        -> {8}
          [] c = "PreDeployment"  -> {5}
          [] OTHER                -> {}]

\* cards.reduce((sum, c) => sum + c.effort, 0)
RECURSIVE SumEffort(_)
SumEffort(cards) ==
    IF cards = <<>> THEN 0 ELSE Head(cards).effort + SumEffort(Tail(cards))

\* a capacity check that refuses a card that fills the stage exactly
checkColumnCapacity_Strict(column, card, columns) ==
    LET maxCapacity == COLUMN_CAPACITIES[column]
        cardsInColumn == columns[column]
    IN  IF maxCapacity = {}
        THEN [threw |-> FALSE, isValid |-> TRUE]
        ELSE IF ~cardsInColumn.isArray
        THEN [threw |-> TRUE, isValid |-> FALSE]
        ELSE [threw |-> FALSE,
              isValid |-> \A limit \in maxCapacity :
                             SumEffort(cardsInColumn.items) + card.effort < limit]

\* ValidationService.checkColumnCapacity: a column that is no array has no
\* reduce method, so the call throws a TypeError
checkColumnCapacity(column, card, columns) ==
    LET maxCapacity == COLUMN_CAPACITIES[column]
        cardsInColumn == columns[column]
    IN  IF maxCapacity = {}
        THEN [threw |-> FALSE, isValid |-> TRUE]
        ELSE IF ~cardsInColumn.isArray
        THEN [threw |-> TRUE, isValid |-> FALSE]
        ELSE [threw |-> FALSE,
              isValid |-> \A limit \in maxCapacity :
                             SumEffort(cardsInColumn.items) + card.effort <= limit]

\* the value gameService.rollD6 returns, with the session it leaves behind
RollFailure(session, message) ==
    [success |-> FALSE, message |-> message, session |-> session,
     request |-> <<>>, rollResult |-> <<>>]

\* pool updates that take a token at every roll and count none as used
poolAfterRoll_KeepsUsed(session, movementResult) ==
    LET pool == session.scrumMasterState
        spent == [pool EXCEPT !.tokensAvailable = pool.tokensAvailable - 1]
    IN  IF movementResult.technicalDebtActivated
        THEN [spent EXCEPT !.technicalDebtActive = TRUE,
                           !.technicalDebtExpiresAtTurn = session.currentTurn + 2]
        ELSE spent

\* lines 209-224 of gameService.rollD6: the pool updates after the move
poolAfterRoll(session, movementResult) ==
    LET pool == session.scrumMasterState
        spent == IF movementResult.tokensUsed > 0
                 THEN [pool EXCEPT
                         !.tokensAvailable = pool.tokensAvailable - movementResult.tokensUsed,
                         !.tokensUsed = pool.tokensUsed + movementResult.tokensUsed]
                 ELSE pool
    IN  IF movementResult.technicalDebtActivated
        THEN [spent EXCEPT !.technicalDebtActive = TRUE,
                           !.technicalDebtExpiresAtTurn = session.currentTurn + 2]
        ELSE spent

\* lines 177-231 of gameService.rollD6, once the card is located
rollLocatedCard(session, cardId, card, roll) ==
    LET rollRequest == [cardId |-> cardId, currentColumn |-> card.currentColumn,
                        card |-> card, scrumMasterState |-> session.scrumMasterState]
        result == resolveRoll(roll, rollRequest)
        movementResult == BoardService_moveCard(card, card.currentColumn,
                                        result.destinationColumn, result,
                                        session.scrumMasterState)
        moved == moveCardColumns(session.columns, cardId, card.currentColumn,
                                 result.destinationColumn)
        afterMove == [session EXCEPT !.columns = moved.columns]
    IN  IF ~movementResult.success
        THEN [RollFailure(session, "movement") EXCEPT
                 !.request = <<rollRequest>>, !.rollResult = <<result>>]
        ELSE IF moved.threw
        THEN [RollFailure(afterMove, "TypeError") EXCEPT
                 !.request = <<rollRequest>>, !.rollResult = <<result>>]
        ELSE IF ~moved.ok
        THEN [RollFailure(afterMove, "Failed to update game state") EXCEPT
                 !.request = <<rollRequest>>, !.rollResult = <<result>>]
        ELSE [success |-> TRUE, message |-> "D6 roll completed successfully",
              session |-> [afterMove EXCEPT
                              !.scrumMasterState = poolAfterRoll(session, movementResult)],
              request |-> <<rollRequest>>, rollResult |-> <<result>>]

\* gameService.rollD6 on a stored session: every throw inside the try block
\* becomes the failure result of the catch block
serviceRollD6(session, cardId, roll) ==
    LET located == findCardById(cardId, session.columns)
        validation == validateCardExists(cardId, session.columns)
    IN  IF located.threw THEN RollFailure(session, "TypeError")
        ELSE IF located.card = <<>> THEN RollFailure(session, "Card not found")
        ELSE IF validation.threw THEN RollFailure(session, "TypeError")
        ELSE IF ~validation.isValid THEN RollFailure(session, "Card not found")
        ELSE rollLocatedCard(session, cardId, located.card[1], roll)

\* lines 177-231 of gameService.rollD6 when GameStateStore.moveCard is the
\* moveCard of the Card[] board
arrayRollLocatedCard(session, cardId, card, roll) ==
    LET rollRequest == [cardId |-> cardId, currentColumn |-> card.currentColumn,
                        card |-> card, scrumMasterState |-> session.scrumMasterState]
        result == resolveRoll(roll, rollRequest)
        movementResult == BoardService_moveCard(card, card.currentColumn,
                                        result.destinationColumn, result,
                                        session.scrumMasterState)
        moved == arrayMoveCardColumns(session.columns, cardId, card.currentColumn,
                                      result.destinationColumn)
        afterMove == [session EXCEPT !.columns = moved.columns]
    IN  IF ~movementResult.success
        THEN [RollFailure(session, "movement") EXCEPT
                 !.request = <<rollRequest>>, !.rollResult = <<result>>]
        ELSE IF moved.threw
        THEN [RollFailure(afterMove, "TypeError") EXCEPT
                 !.request = <<rollRequest>>, !.rollResult = <<result>>]
        ELSE IF ~moved.ok
        THEN [RollFailure(afterMove, "Failed to update game state") EXCEPT
                 !.request = <<rollRequest>>, !.rollResult = <<result>>]
        ELSE [success |-> TRUE, message |-> "D6 roll completed successfully",
              session |-> [afterMove EXCEPT
                              !.scrumMasterState = poolAfterRoll(session, movementResult)],
              request |-> <<rollRequest>>, rollResult |-> <<result>>]

\* rollD6 falling back on the first card of Funnel when the card is not found
arrayServiceRollD6_DefaultCard(session, cardId, roll) ==
    LET located == findCardById(cardId, session.columns)
        funnel == session.columns["Funnel"].items
    IN  IF located.threw THEN RollFailure(session, "TypeError")
        ELSE IF located.card # <<>>
        THEN arrayRollLocatedCard(session, cardId, located.card[1], roll)
        ELSE IF funnel # <<>>
        THEN arrayRollLocatedCard(session, funnel[1].id, funnel[1], roll)
        ELSE RollFailure(session, "Card not found")

\* gameService.rollD6 on a stored session of the Card[] board
arrayServiceRollD6(session, cardId, roll) ==
    LET located == findCardById(cardId, session.columns)
        validation == validateCardExists(cardId, session.columns)
    IN  IF located.threw THEN RollFailure(session, "TypeError")
        ELSE IF located.card = <<>> THEN RollFailure(session, "Card not found")
        ELSE IF validation.threw THEN RollFailure(session, "TypeError")
        ELSE IF ~validation.isValid THEN RollFailure(session, "Card not found")
        ELSE arrayRollLocatedCard(session, cardId, located.card[1], roll)

----------------------------------------------------------------------------
(* MetricsService (types/game.ts) and gameService.getMetrics, on the Card[] board *)

\* Object.values(columns).flat(): the cards of every stage, in stage order
RECURSIVE getAllCardsFrom(_, _)
getAllCardsFrom(columns, i) ==
    IF i > Len(BOARD_COLUMNS)
    THEN <<>>
    ELSE columns[BOARD_COLUMNS[i]].items \o getAllCardsFrom(columns, i + 1)

getAllCards(columns) == getAllCardsFrom(columns, 1)

\* for turn 1..currentTurn: the effort of the Production cards whose cycleTime
\* is the turn
calculateVelocityPerTurn(session) ==
    [turn \in 1..session.currentTurn |->
        SumEffort(SelectSeq(session.columns["Production"].items,
                            LAMBDA card : card.cycleTime = {turn}))]

\* a score that adds up the effort of every card of the board
calculateAccumulatedScore_AllCards(session) ==
    SumEffort(getAllCards(session.columns))

calculateAccumulatedScore(session) ==
    SumEffort(session.columns["Production"].items)

\* the Map of card id -> cycle time, set card by card (a later card of the
\* same id overwrites an earlier one)
RECURSIVE calculateCycleTimePerCard(_)
calculateCycleTimePerCard(cards) ==
    IF cards = <<>>
    THEN <<>>
    ELSE LET card == cards[Len(cards)]
             before == calculateCycleTimePerCard(SubSeq(cards, 1, Len(cards) - 1))
         IN  IF card.cycleTime = NullCycleTime
             THEN before
             ELSE (card.id :> (CHOOSE n \in card.cycleTime : TRUE)) @@ before

\* one snapshot per turn, each counting the cards of the current board
calculateCumulativeFlowData(session) ==
    [turn \in 1..session.currentTurn |->
        [turn |-> turn,
         columnCounts |-> [c \in BoardColumn |-> Len(session.columns[c].items)],
         totalWIP |-> Len(getAllCards(session.columns))]]

\* revertCount events per card, rebuilt from the card as it is stored
RECURSIVE calculateRevertEvents(_)
calculateRevertEvents(cards) ==
    IF cards = <<>>
    THEN <<>>
    ELSE LET card == Head(cards)
         IN  [i \in 1..card.revertCount |->
                 [turn |-> card.createdTurn + i, cardId |-> card.id,
                  from |-> card.currentColumn, to |-> card.currentColumn,
                  reason |-> "TechnicalImpediment", effortLost |-> 0]]
             \o calculateRevertEvents(Tail(cards))

\* arr.slice(start, end): a negative index counts from the end of the array
SliceIndex(n, k) == IF k < 0 THEN (IF n + k < 0 THEN 0 ELSE n + k)
                    ELSE (IF k > n THEN n ELSE k)

Slice(arr, start, end) ==
    SubSeq(arr, SliceIndex(Len(arr), start) + 1, SliceIndex(Len(arr), end))

\* metrics.flatMap(m => m.velocityPerTurn)
RECURSIVE flatVelocities(_)
flatVelocities(metrics) ==
    IF metrics = <<>>
    THEN <<>>
    ELSE Head(metrics).velocityPerTurn \o flatVelocities(Tail(metrics))

\* velocities.reduce((sum, v) => sum + v, 0)
RECURSIVE SumOf(_)
SumOf(velocities) ==
    IF velocities = <<>> THEN 0 ELSE Head(velocities) + SumOf(Tail(velocities))

\* getAvgVelocity as the fraction num / den: the sum over the number of
\* velocities, 0 when there are none
getAvgVelocity(metrics) ==
    LET velocities == flatVelocities(metrics)
    IN  IF Len(velocities) > 0
        THEN [num |-> SumOf(velocities), den |-> Len(velocities)]
        ELSE [num |-> 0, den |-> 1]

\* a > b * tenths / 10 for fractions a and b.  1.1 and 0.9 are the nearest
\* doubles to 11/10 and 9/10; for means of a few small integers the rounded
\* product falls on the same side of a as the exact one.
Above(a, b, tenths) == a.num * b.den * 10 > b.num * a.den * tenths

Below(a, b, tenths) == a.num * b.den * 10 < b.num * a.den * tenths

StableTrends ==
    [velocityTrend |-> "stable", cycleTimeTrend |-> "stable",
     throughputTrend |-> "stable"]

\* trends that compare an empty older window as the mean 0
calculateTrends_ZeroOlder(historicalMetrics) ==
    IF Len(historicalMetrics) < 2
    THEN StableTrends
    ELSE LET recent == Slice(historicalMetrics, 0 - 3, Len(historicalMetrics))
             older == Slice(historicalMetrics, 0 - 6, 0 - 3)
             avgRecentVelocity == getAvgVelocity(recent)
             avgOlderVelocity == getAvgVelocity(older)
         IN  [StableTrends EXCEPT !.velocityTrend =
                 IF Above(avgRecentVelocity, avgOlderVelocity, 11) THEN "increasing"
                 ELSE IF Below(avgRecentVelocity, avgOlderVelocity, 9) THEN "decreasing"
                 ELSE "stable"]

\* MetricsService.calculateTrends
calculateTrends(historicalMetrics) ==
    IF Len(historicalMetrics) < 2
    THEN StableTrends
    ELSE LET recent == Slice(historicalMetrics, 0 - 3, Len(historicalMetrics))
             older == Slice(historicalMetrics, 0 - 6, 0 - 3)
             avgRecentVelocity == getAvgVelocity(recent)
             avgOlderVelocity == IF Len(older) > 0 THEN getAvgVelocity(older)
                                 ELSE avgRecentVelocity
         IN  [StableTrends EXCEPT !.velocityTrend =
                 IF Above(avgRecentVelocity, avgOlderVelocity, 11) THEN "increasing"
                 ELSE IF Below(avgRecentVelocity, avgOlderVelocity, 9) THEN "decreasing"
                 ELSE "stable"]

calculateCurrentMetrics(session) ==
    [velocityPerTurn |-> calculateVelocityPerTurn(session),
     accumulatedScore |-> calculateAccumulatedScore(session),
     cycleTimePerCard |-> calculateCycleTimePerCard(getAllCards(session.columns)),
     cumulativeFlowData |-> calculateCumulativeFlowData(session),
     revertEvents |-> calculateRevertEvents(getAllCards(session.columns)),
     tokenUsageHistory |-> <<>>]

\* calculateMetrics({gameState}): includeHistorical is false
calculateMetrics(session) == [current |-> calculateCurrentMetrics(session)]

NoMetrics == <<>>

\* gameService.getMetrics on a stored session.  A Production stage that is no
\* array has no filter method: the TypeError is caught and reported.
getMetrics(session) ==
    IF ~session.columns["Production"].isArray
    THEN [success |-> FALSE, metrics |-> NoMetrics]
    ELSE [success |-> TRUE, metrics |-> calculateMetrics(session)]

----------------------------------------------------------------------------
(* The state machine *)

\* what the last call returned: op names the operation, ok its boolean result
\* (success for the service), threw a TypeError that escaped a store call
Result(op, ok, threw) == [op |-> op, ok |-> ok, threw |-> threw]

NoResult == Result("none", FALSE, FALSE)

\* effort of the card a caller builds for id: all three sizes occur
EffortOf(id) == At(<<1, 3, 5>>, id % 3)

\* the request DiceService.rollD6 is called with when it is studied on its own
DiceRequests ==
    { [cardId |-> 1, currentColumn |-> c, card |-> NewCard(1, e, c),
       scrumMasterState |-> [tokensAvailable |-> t, tokensTotal |-> 3,
                             tokensUsed |-> 3 - t, technicalDebtActive |-> a,
                             technicalDebtExpiresAtTurn |-> x]] :
        c \in BoardColumn, e \in CardEffort, t \in 0..3, a \in BOOLEAN, x \in {0, 3} }

IdleRequest ==
    [cardId |-> 1, currentColumn |-> "Funnel", card |-> NewCard(1, 1, "Funnel"),
     scrumMasterState |-> InitialScrumMasterState]

\* the ids of the cards a board holds
CardsOn(columns) ==
    UNION { {columns[c].slots[i].id : i \in 1..Len(columns[c].slots)}
            \cup {columns[c].queue[i].id : i \in 1..Len(columns[c].queue)}
            \cup {columns[c].items[i].id : i \in 1..Len(columns[c].items)} :
            c \in BoardColumn }

Init ==
    /\ sessions = <<>>
    /\ lastResult = NoResult
    /\ request = IdleRequest
    /\ rollResult = NoRoll

\* GameStateStore.createGame
CreateGame ==
    \E g \in GameIds \ DOMAIN sessions :
        /\ sessions' = sessions @@ (g :> NewSession(g))
        /\ lastResult' = Result("createGame", TRUE, FALSE)
        /\ UNCHANGED <<request, rollResult>>

\* gameService.startGame
StartGame ==
    \E g \in GameIds \ DOMAIN sessions :
        /\ sessions' = sessions @@ (g :> StartedSession(g))
        /\ lastResult' = Result("startGame", TRUE, FALSE)
        /\ UNCHANGED <<request, rollResult>>

\* every card id a caller may name
AllCardIds == CardIds \cup SampleCardIds

\* GameStateStore.addCard(g, column, card)
AddCardCall(g, column, card) ==
    IF g \notin DOMAIN sessions
    THEN /\ lastResult' = Result("addCard", FALSE, FALSE)
         /\ UNCHANGED <<sessions, request, rollResult>>
    ELSE LET r == addCardColumns(sessions[g].columns, column, card)
         IN  /\ sessions' = [sessions EXCEPT ![g].columns = r.columns]
             /\ lastResult' = Result("addCard", r.ok, r.threw)
             /\ UNCHANGED <<request, rollResult>>

\* callers give every card they add an id no card of the board has
AddCard ==
    \E g \in GameIds, column \in BoardColumn, id \in CardIds :
        /\ g \in DOMAIN sessions => id \notin CardsOn(sessions[g].columns)
        /\ AddCardCall(g, column, NewCard(id, EffortOf(id), column))

\* GameStateStore.moveCard(g, id, fromColumn, toColumn)
MoveCardCall(g, id, fromColumn, toColumn) ==
    IF g \notin DOMAIN sessions
    THEN /\ lastResult' = Result("moveCard", FALSE, FALSE)
         /\ UNCHANGED <<sessions, request, rollResult>>
    ELSE LET r == moveCardColumns(sessions[g].columns, id, fromColumn, toColumn)
         IN  /\ sessions' = [sessions EXCEPT ![g].columns = r.columns]
             /\ lastResult' = Result("moveCard", r.ok, r.threw)
             /\ UNCHANGED <<request, rollResult>>

MoveCard ==
    \E g \in GameIds, id \in AllCardIds, fromColumn \in BoardColumn,
       toColumn \in BoardColumn :
        MoveCardCall(g, id, fromColumn, toColumn)

\* GameStateStore.removeCard(g, id)
RemoveCardCall(g, id) ==
    IF g \notin DOMAIN sessions
    THEN /\ lastResult' = Result("removeCard", FALSE, FALSE)
         /\ UNCHANGED <<sessions, request, rollResult>>
    ELSE LET r == removeCardColumns(sessions[g].columns, id)
         IN  /\ sessions' = [sessions EXCEPT ![g].columns = r.columns]
             /\ lastResult' = Result("removeCard", r.ok, r.threw)
             /\ UNCHANGED <<request, rollResult>>

RemoveCard == \E g \in GameIds, id \in AllCardIds : RemoveCardCall(g, id)

\* gameService.rollD6(g, id), the die showing roll.  A successful call hands
\* the roll result back to its caller; a failed one hands back a message only.
RollD6Call(g, id, roll) ==
    IF g \notin DOMAIN sessions
    THEN /\ lastResult' = Result("rollD6", FALSE, FALSE)
         /\ UNCHANGED <<sessions, request, rollResult>>
    ELSE LET r == serviceRollD6(sessions[g], id, roll)
         IN  /\ sessions' = [sessions EXCEPT ![g] = r.session]
             /\ lastResult' = Result("rollD6", r.success, FALSE)
             /\ request' = IF r.success THEN r.request[1] ELSE request
             /\ rollResult' = IF r.success THEN r.rollResult[1] ELSE rollResult

RollD6 ==
    \E g \in GameIds, id \in AllCardIds, roll \in generateRoll :
        RollD6Call(g, id, roll)

Next == CreateGame \/ AddCard \/ MoveCard \/ RemoveCard \/ RollD6

\* sessions built through the store: createGame, then the store's card
\* operations and the service's roll
Spec == Init /\ [][Next]_vars

\* sessions built through the service: startGame, then the same operations
GameNext == StartGame \/ AddCard \/ MoveCard \/ RemoveCard \/ RollD6

SpecGame == Init /\ [][GameNext]_vars

\* DiceService.rollD6 on its own: the request is any request, the roll any
\* value generateRoll can give
DiceInit ==
    /\ sessions = <<>>
    /\ lastResult = NoResult
    /\ request \in DiceRequests
    /\ rollResult = NoRoll

\* a roll that spends a token itself when the outcome can be mitigated
DiceRollD6_SpendsToken ==
    \E roll \in generateRoll :
        /\ rollResult' = resolveRoll(roll, request)
        /\ request' = IF resolveRoll(roll, request).canMitigation
                      THEN [request EXCEPT !.scrumMasterState.tokensAvailable = @ - 1,
                                           !.scrumMasterState.tokensUsed = @ + 1]
                      ELSE request
        /\ UNCHANGED <<sessions, lastResult>>

DiceRollD6 ==
    \E roll \in generateRoll :
        /\ rollResult' = resolveRoll(roll, request)
        /\ UNCHANGED <<request, sessions, lastResult>>

DiceNext == DiceRollD6

SpecDice == DiceInit /\ [][DiceNext]_vars

----------------------------------------------------------------------------
(* A game played through the service on the Card[] board *)

\* the session ids a caller may name: the stored ones and one never stored
CallerGameIds == GameIds \cup {"g0"}

\* gameService.startGame on the Card[] board
ArrayStartGame ==
    \E g \in GameIds \ DOMAIN sessions :
        /\ sessions' = sessions @@ (g :> StartedArraySession(g))
        /\ lastResult' = Result("startGame", TRUE, FALSE)
        /\ UNCHANGED <<request, rollResult>>

\* gameService.rollD6(g, id) on the Card[] board, the die showing roll
ArrayRollD6Call(g, id, roll) ==
    IF g \notin DOMAIN sessions
    THEN /\ lastResult' = Result("rollD6", FALSE, FALSE)
         /\ UNCHANGED <<sessions, request, rollResult>>
    ELSE \E r \in {arrayServiceRollD6(sessions[g], id, roll)} :
             /\ sessions' = [sessions EXCEPT ![g] = r.session]
             /\ lastResult' = Result("rollD6", r.success, FALSE)
             /\ request' = IF r.success THEN r.request[1] ELSE request
             /\ rollResult' = IF r.success THEN r.rollResult[1] ELSE rollResult

ArrayRollD6 ==
    \E g \in CallerGameIds, id \in AllCardIds, roll \in generateRoll :
        ArrayRollD6Call(g, id, roll)

RollNext == ArrayStartGame \/ ArrayRollD6

\* startGame and rolls, every roll result handed back to the caller
SpecRoll == Init /\ [][RollNext]_vars

\* gameService.rollD6(g, id) for a caller that keeps only the success flag of
\* the result (gameController.rollD6 branches on result.success)
PlayRollD6Call(g, id, roll) ==
    IF g \notin DOMAIN sessions
    THEN /\ lastResult' = Result("rollD6", FALSE, FALSE)
         /\ UNCHANGED <<sessions, request, rollResult>>
    ELSE \E r \in {arrayServiceRollD6(sessions[g], id, roll)} :
             /\ sessions' = [sessions EXCEPT ![g] = r.session]
             /\ lastResult' = Result("rollD6", r.success, FALSE)
             /\ UNCHANGED <<request, rollResult>>

PlayRollD6 ==
    \E g \in GameIds, id \in SampleCardIds, roll \in generateRoll :
        PlayRollD6Call(g, id, roll)

\* gameService.advancePhase(g)
AdvancePhaseCall(g) ==
    IF g \notin DOMAIN sessions
    THEN /\ lastResult' = Result("advancePhase", FALSE, FALSE)
         /\ UNCHANGED <<sessions, request, rollResult>>
    ELSE \E r \in {advancePhase(sessions[g])} :
             /\ sessions' = [sessions EXCEPT ![g] = r.session]
             /\ lastResult' = Result("advancePhase", r.ok, FALSE)
             /\ UNCHANGED <<request, rollResult>>

AdvancePhase == \E g \in GameIds : AdvancePhaseCall(g)

\* GameStateStore.advanceTurn(g)
AdvanceTurnCall(g) ==
    IF g \notin DOMAIN sessions
    THEN /\ lastResult' = Result("advanceTurn", FALSE, FALSE)
         /\ UNCHANGED <<sessions, request, rollResult>>
    ELSE /\ sessions' = [sessions EXCEPT ![g] = advanceTurn(sessions[g])]
         /\ lastResult' = Result("advanceTurn", TRUE, FALSE)
         /\ UNCHANGED <<request, rollResult>>

\* advanceTurn called while the turn counter is below limit
AdvanceTurnUpTo(limit) ==
    \E g \in GameIds :
        /\ g \in DOMAIN sessions => sessions[g].currentTurn < limit
        /\ AdvanceTurnCall(g)

AdvanceTurn == AdvanceTurnUpTo(MaxTurn)

\* an endGame that marks every stored session ended
EndGameCall_EndsAll(g) ==
    IF g \notin DOMAIN sessions
    THEN /\ lastResult' = Result("endGame", FALSE, FALSE)
         /\ UNCHANGED <<sessions, request, rollResult>>
    ELSE /\ sessions' = [h \in DOMAIN sessions |-> endGame(sessions[h])]
         /\ lastResult' = Result("endGame", TRUE, FALSE)
         /\ UNCHANGED <<request, rollResult>>

\* gameService.endGame(g)
EndGameCall(g) ==
    IF g \notin DOMAIN sessions
    THEN /\ lastResult' = Result("endGame", FALSE, FALSE)
         /\ UNCHANGED <<sessions, request, rollResult>>
    ELSE /\ sessions' = [sessions EXCEPT ![g] = endGame(sessions[g])]
         /\ lastResult' = Result("endGame", TRUE, FALSE)
         /\ UNCHANGED <<request, rollResult>>

EndGame == \E g \in GameIds : EndGameCall(g)

PlayNext == ArrayStartGame \/ PlayRollD6 \/ AdvancePhase \/ AdvanceTurn \/ EndGame

\* a whole game: startGame, rolls, phases, turns and endGame
SpecPlay == Init /\ [][PlayNext]_vars

AdvanceTurnPastMax == AdvanceTurnUpTo(LastTurn)

TurnNext == ArrayStartGame \/ AdvancePhase \/ AdvanceTurnPastMax \/ EndGame

\* the turn and phase sequencing of a session, run past its maxTurns
SpecTurn == Init /\ [][TurnNext]_vars

\* the same update with the bonus expiring one turn after the current one
ActivateTechnicalDebtCall_NextTurn(g) ==
    IF g \notin DOMAIN sessions
    THEN /\ lastResult' = Result("updateScrumMasterState", FALSE, FALSE)
         /\ UNCHANGED <<sessions, request, rollResult>>
    ELSE /\ sessions' = [sessions EXCEPT ![g] =
                updateScrumMasterState(sessions[g],
                    [technicalDebtActive |-> TRUE,
                     technicalDebtExpiresAtTurn |-> sessions[g].currentTurn + 1])]
         /\ lastResult' = Result("updateScrumMasterState", TRUE, FALSE)
         /\ UNCHANGED <<request, rollResult>>

\* the pool update of lines 219-224 of gameService.rollD6: the technical-debt
\* bonus becomes active, expiring two turns after the current one
ActivateTechnicalDebtCall(g) ==
    IF g \notin DOMAIN sessions
    THEN /\ lastResult' = Result("updateScrumMasterState", FALSE, FALSE)
         /\ UNCHANGED <<sessions, request, rollResult>>
    ELSE /\ sessions' = [sessions EXCEPT ![g] =
                updateScrumMasterState(sessions[g],
                    [technicalDebtActive |-> TRUE,
                     technicalDebtExpiresAtTurn |-> sessions[g].currentTurn + 2])]
         /\ lastResult' = Result("updateScrumMasterState", TRUE, FALSE)
         /\ UNCHANGED <<request, rollResult>>

ActivateTechnicalDebt == \E g \in GameIds : ActivateTechnicalDebtCall(g)

\* the rolls on which the die shows 6
CriticalFailureRoll ==
    \E g \in GameIds, id \in SampleCardIds : ArrayRollD6Call(g, id, 6)

AdvanceTurnPastExpiry == AdvanceTurnUpTo(MaxDebtTurn)

DebtNext ==
    ArrayStartGame \/ ActivateTechnicalDebt \/ AdvanceTurnPastExpiry \/ CriticalFailureRoll

\* technical debt over the turns: activation, turn advances, die-6 rolls
SpecDebt == Init /\ [][DebtNext]_vars

----------------------------------------------------------------------------
(* Two sessions in one store, on the Card[] board *)

\* the ids of the stored sessions: callers play the first in full; the second
\* is started, rolled on and ended beside it
SessionIds == GameIds \cup {"g2"}

\* what a caller of startGame supplies: no players, or a roster of one
SuppliedPlayers == {{}, {<<[id |-> 9, role |-> "Developer-Impl"]>>}}

\* gameService.startGame(players), createGame naming the new session g
StartGameCall(g, players) ==
    /\ sessions' = sessions @@ (g :> StartedArraySessionFor(g, players))
    /\ lastResult' = Result("startGame", TRUE, FALSE)
    /\ UNCHANGED <<request, rollResult>>

SessionsStartGame ==
    \E g \in SessionIds \ DOMAIN sessions, players \in SuppliedPlayers :
        StartGameCall(g, players)

\* GameStateStore.addCard(g, column, card) on the Card[] board
ArrayAddCardCall(g, column, card) ==
    IF g \notin DOMAIN sessions
    THEN /\ lastResult' = Result("addCard", FALSE, FALSE)
         /\ UNCHANGED <<sessions, request, rollResult>>
    ELSE /\ sessions' = [sessions EXCEPT ![g].columns =
                            arrayAddCardColumns(@, column, card)]
         /\ lastResult' = Result("addCard", TRUE, FALSE)
         /\ UNCHANGED <<request, rollResult>>

\* the stages the callers of the two-session store add and move a card in
SessionStages == {"ProductBacklog", "SprintBacklog"}

\* callers add card 1, once, to the product backlog
SessionsAddCard ==
    \E g \in GameIds :
        /\ g \in DOMAIN sessions => 1 \notin CardsOn(sessions[g].columns)
        /\ ArrayAddCardCall(g, "ProductBacklog", NewCard(1, EffortOf(1), "ProductBacklog"))

\* GameStateStore.moveCard(g, id, fromColumn, toColumn) on the Card[] board
ArrayMoveCardCall(g, id, fromColumn, toColumn) ==
    IF g \notin DOMAIN sessions
    THEN /\ lastResult' = Result("moveCard", FALSE, FALSE)
         /\ UNCHANGED <<sessions, request, rollResult>>
    ELSE \E r \in {arrayMoveCardColumns(sessions[g].columns, id, fromColumn, toColumn)} :
             /\ sessions' = [sessions EXCEPT ![g].columns = r.columns]
             /\ lastResult' = Result("moveCard", r.ok, r.threw)
             /\ UNCHANGED <<request, rollResult>>

SessionsMoveCard ==
    \E g \in GameIds, fromColumn \in SessionStages, toColumn \in SessionStages :
        ArrayMoveCardCall(g, 1, fromColumn, toColumn)

\* the rolls of the first sample card on which the die shows 1
SessionsRollD6 == \E g \in SessionIds : PlayRollD6Call(g, 101, 1)

SessionsEndGame == \E g \in SessionIds : EndGameCall(g)

SessionsNext ==
    \/ SessionsStartGame \/ SessionsAddCard \/ SessionsMoveCard \/ SessionsRollD6
    \/ AdvancePhase \/ AdvanceTurn \/ ActivateTechnicalDebt \/ SessionsEndGame

\* two sessions side by side: every operation on the first, beside a second
\* that is started, rolled on and ended
SpecSessions == Init /\ [][SessionsNext]_vars

----------------------------------------------------------------------------
(* Metrics of a stored session *)

\* what getMetrics returned for session g
MetricsResult(g, ok, metrics) ==
    [op |-> "getMetrics", ok |-> ok, threw |-> FALSE, gameId |-> g,
     metrics |-> metrics]

\* the stages the cards of the measured boards are in
MetricsStages == {"Testing", "Production"}

\* card id as a board may hold it: in one of the stages, with or without a
\* cycle time, reverted once or never
MetricsCards(id) ==
    { [NewCard(id, EffortOf(id), c) EXCEPT !.cycleTime = t, !.revertCount = n] :
        c \in MetricsStages,
        t \in {NullCycleTime} \cup {{k} : k \in 1..MaxTurn},
        n \in 0..1 }

\* the cards of pick that are in stage c, in the order of their ids
RECURSIVE CardsIn(_, _, _)
CardsIn(pick, c, id) ==
    IF id > MaxCards
    THEN <<>>
    ELSE (IF pick[id].currentColumn = c THEN <<pick[id]>> ELSE <<>>)
         \o CardsIn(pick, c, id + 1)

\* a started session whose board holds the cards of pick
MeasuredSession(g, pick) ==
    [NewArraySession(g) EXCEPT
        !.columns = [c \in BoardColumn |-> ArrayColumn(CardsIn(pick, c, 1))]]

MetricsInit ==
    /\ \E g \in GameIds :
          \E pick \in [CardIds -> UNION {MetricsCards(id) : id \in CardIds}] :
             /\ \A id \in CardIds : pick[id].id = id
             /\ sessions = (g :> MeasuredSession(g, pick))
    /\ lastResult = NoResult
    /\ request = IdleRequest
    /\ rollResult = NoRoll

\* a getMetrics that keeps the revert events it computed in the session
GetMetricsCall_Stores(g) ==
    IF g \notin DOMAIN sessions
    THEN /\ lastResult' = MetricsResult(g, FALSE, NoMetrics)
         /\ UNCHANGED <<sessions, request, rollResult>>
    ELSE \E r \in {getMetrics(sessions[g])} :
             /\ lastResult' = MetricsResult(g, r.success, r.metrics)
             /\ sessions' = [sessions EXCEPT ![g].revertEvents =
                                r.metrics.current.revertEvents]
             /\ UNCHANGED <<request, rollResult>>

\* gameService.getMetrics(g)
GetMetricsCall(g) ==
    IF g \notin DOMAIN sessions
    THEN /\ lastResult' = MetricsResult(g, FALSE, NoMetrics)
         /\ UNCHANGED <<sessions, request, rollResult>>
    ELSE \E r \in {getMetrics(sessions[g])} :
             /\ lastResult' = MetricsResult(g, r.success, r.metrics)
             /\ UNCHANGED <<sessions, request, rollResult>>

GetMetrics == \E g \in CallerGameIds : GetMetricsCall(g)

MetricsNext == GetMetrics \/ AdvanceTurn

\* metrics asked for, turn after turn, of every board of MetricsInit
SpecMetrics == MetricsInit /\ [][MetricsNext]_vars

----------------------------------------------------------------------------
(* Capacity validation of a stage *)

\* the most cards the checked stage holds
MaxLoad == 4

\* what checkColumnCapacity returned for a card of this effort and the stage
CapacityResult(column, effort, isValid, threw) ==
    [op |-> "checkColumnCapacity", ok |-> isValid, threw |-> threw,
     column |-> column, effort |-> effort]

\* cards of the given efforts, as they lie in stage column
LoadedCards(efforts, column) ==
    [i \in 1..Len(efforts) |-> NewCard(i, efforts[i], column)]

\* a session one stage of which holds up to MaxLoad cards of any effort
CapacityInit ==
    /\ \E g \in GameIds, column \in BoardColumn, n \in 0..MaxLoad :
          \E efforts \in [1..n -> CardEffort] :
             sessions = (g :> [NewArraySession(g) EXCEPT
                                  !.columns[column] =
                                     ArrayColumn(LoadedCards(efforts, column))])
    /\ lastResult = NoResult
    /\ request = IdleRequest
    /\ rollResult = NoRoll

\* ValidationService.checkColumnCapacity(column, card, gameState of g)
CheckColumnCapacityCall(g, column, card) ==
    \E r \in {checkColumnCapacity(column, card, sessions[g].columns)} :
        /\ lastResult' = CapacityResult(column, card.effort, r.isValid, r.threw)
        /\ UNCHANGED <<sessions, request, rollResult>>

\* the check is asked for the stage that holds the cards (any stage of an
\* empty board), for a card of any effort that is not yet on the board
CheckColumnCapacity ==
    \E g \in DOMAIN sessions, column \in BoardColumn, effort \in CardEffort :
        /\ \/ sessions[g].columns[column].items # <<>>
           \/ CardsOn(sessions[g].columns) = {}
        /\ CheckColumnCapacityCall(g, column, NewCard(MaxLoad + 1, effort, column))

CapacityNext == CheckColumnCapacity

\* capacity checks on every load of every stage
SpecCapacity == CapacityInit /\ [][CapacityNext]_vars

----------------------------------------------------------------------------
(* Queues of the slots / queue board *)

\* the most cards the callers of the queueing stages place
MaxQueued == 3

QueueCardIds == 1..MaxQueued

\* two stages whose wipLimit is 1: a second card already queues
QueueStages == {"ProductBacklog", "Integration"}

QueueAddCard ==
    \E g \in GameIds, column \in QueueStages, id \in QueueCardIds :
        /\ g \in DOMAIN sessions => id \notin CardsOn(sessions[g].columns)
        /\ AddCardCall(g, column, NewCard(id, EffortOf(id), column))

QueueMoveCard ==
    \E g \in GameIds, id \in QueueCardIds, fromColumn \in QueueStages,
       toColumn \in QueueStages :
        MoveCardCall(g, id, fromColumn, toColumn)

QueueNext == CreateGame \/ QueueAddCard \/ QueueMoveCard

\* createGame, then cards added to and moved between two stages of wipLimit 1
SpecQueue == Init /\ [][QueueNext]_vars

----------------------------------------------------------------------------
(* The stage topology of BoardService *)

\* the most steps getPreviousColumns is asked for
MaxSteps == 10

\* what a topology function returned for stage column (and steps)
TopologyResult(op, column, steps, value) ==
    [op |-> op, ok |-> TRUE, threw |-> FALSE, column |-> column, steps |-> steps,
     value |-> value]

GetNextColumn ==
    \E column \in BoardColumn :
        /\ lastResult' = TopologyResult("getNextColumn", column, 1,
                                        BoardService_getNextColumn(column))
        /\ UNCHANGED <<sessions, request, rollResult>>

GetPreviousColumn ==
    \E column \in BoardColumn :
        /\ lastResult' = TopologyResult("getPreviousColumn", column, 1,
                                        BoardService_getPreviousColumn(column))
        /\ UNCHANGED <<sessions, request, rollResult>>

GetPreviousColumns ==
    \E column \in BoardColumn, steps \in 0..MaxSteps :
        /\ lastResult' = TopologyResult("getPreviousColumns", column, steps,
                                        BoardService_getPreviousColumns(column, steps))
        /\ UNCHANGED <<sessions, request, rollResult>>

TopologyNext == GetNextColumn \/ GetPreviousColumn \/ GetPreviousColumns

\* the three topology functions asked about every stage
SpecTopology == Init /\ [][TopologyNext]_vars

----------------------------------------------------------------------------
(* The lifetime of the stored sessions *)

\* the latest reading of the clock
MaxClock == 2

\* the ids createGame gives, in the order it gives them: the sessions Map
\* iterates in insertion order, which is the order of these ids
LifeIds == <<"g1", "g2", "g3">>

\* Array.from(sessions.values()): the stored ids in insertion order
StoredIds(store) == SelectSeq(LifeIds, LAMBDA g : g \in DOMAIN store)

\* GameStateStore.getActiveGames, as the ids of the sessions it returns
getActiveGames(store) == SelectSeq(StoredIds(store), LAMBDA g : store[g].isActive)

NoGame == "null"

\* a getCurrentGame that looks at every stored session
getCurrentGame_AnySession(store) ==
    LET all == StoredIds(store)
    IN  IF all = <<>>
        THEN NoGame
        ELSE LET newest == {i \in 1..Len(all) :
                               \A j \in 1..Len(all) :
                                  store[all[i]].createdAt >= store[all[j]].createdAt}
             IN  all[CHOOSE i \in newest : \A j \in newest : i <= j]

\* GameStateStore.getCurrentGame: the active sessions sorted by createdAt,
\* latest first (the sort is stable), and the first of them
getCurrentGame(store) ==
    LET activeSessions == getActiveGames(store)
    IN  IF activeSessions = <<>>
        THEN NoGame
        ELSE LET newest == {i \in 1..Len(activeSessions) :
                               \A j \in 1..Len(activeSessions) :
                                  store[activeSessions[i]].createdAt
                                     >= store[activeSessions[j]].createdAt}
             IN  activeSessions[CHOOSE i \in newest : \A j \in newest : i <= j]

\* GameStateStore.createGame when the clock reads t
LifeCreateGame ==
    /\ Cardinality(DOMAIN sessions) < Len(LifeIds)
    /\ \E t \in 1..MaxClock :
          LET g == LifeIds[Cardinality(DOMAIN sessions) + 1]
          IN  sessions' = sessions @@ (g :> [NewSession(g) EXCEPT !.createdAt = t])
    /\ lastResult' = Result("createGame", TRUE, FALSE)
    /\ UNCHANGED <<request, rollResult>>

\* the ids a caller may name: the three and one never stored
LifeCallerIds == {LifeIds[i] : i \in 1..Len(LifeIds)} \cup {"g0"}

LifeEndGame == \E g \in LifeCallerIds : EndGameCall(g)

LifeUpdatePool == \E g \in LifeCallerIds : ActivateTechnicalDebtCall(g)

\* GameStateStore.clearAll
ClearAll ==
    /\ sessions' = <<>>
    /\ lastResult' = Result("clearAll", TRUE, FALSE)
    /\ UNCHANGED <<request, rollResult>>

\* GameStateStore.getGame(g)
GetGame ==
    \E g \in LifeCallerIds :
        /\ lastResult' = [op |-> "getGame", ok |-> g \in DOMAIN sessions,
                          threw |-> FALSE, gameId |-> g,
                          isActive |-> g \in DOMAIN sessions /\ sessions[g].isActive]
        /\ UNCHANGED <<sessions, request, rollResult>>

\* gameService.getActiveGames
GetActiveGames ==
    /\ lastResult' = [op |-> "getActiveGames", ok |-> TRUE, threw |-> FALSE,
                      games |-> getActiveGames(sessions)]
    /\ UNCHANGED <<sessions, request, rollResult>>

\* gameService.getCurrentGame: a failure when the store returns null
GetCurrentGame ==
    /\ lastResult' = [op |-> "getCurrentGame",
                      ok |-> getCurrentGame(sessions) # NoGame, threw |-> FALSE,
                      gameId |-> getCurrentGame(sessions)]
    /\ UNCHANGED <<sessions, request, rollResult>>

LifeNext ==
    \/ LifeCreateGame \/ LifeEndGame \/ LifeUpdatePool \/ ClearAll
    \/ GetGame \/ GetActiveGames \/ GetCurrentGame

\* sessions created, updated, ended, looked up and cleared
SpecLife == Init /\ [][LifeNext]_vars

----------------------------------------------------------------------------
(* Rolls with a replaced die source *)

\* what a die source put in the place of generateRoll may yield: the six
\* values and one beyond them
StubbedRolls == generateRoll \cup {7}

\* gameService.rollD6 when the die shows roll.  A value the switch of
\* DiceService.rollD6 has no case for makes it throw "Invalid roll value";
\* the catch of gameService.rollD6 turns every error into a failure result.
stubbedServiceRollD6(session, cardId, roll) ==
    LET located == findCardById(cardId, session.columns)
        validation == validateCardExists(cardId, session.columns)
    IN  IF roll \in DiceValue THEN arrayServiceRollD6(session, cardId, roll)
        ELSE IF located.threw THEN RollFailure(session, "TypeError")
        ELSE IF located.card = <<>> THEN RollFailure(session, "Card not found")
        ELSE IF validation.threw THEN RollFailure(session, "TypeError")
        ELSE IF ~validation.isValid THEN RollFailure(session, "Card not found")
        ELSE RollFailure(session, "Invalid roll value")

\* gameService.rollD6(g, id), the replaced die showing roll
StubbedRollD6Call(g, id, roll) ==
    IF g \notin DOMAIN sessions
    THEN /\ lastResult' = Result("rollD6", FALSE, FALSE)
         /\ UNCHANGED <<sessions, request, rollResult>>
    ELSE \E r \in {stubbedServiceRollD6(sessions[g], id, roll)} :
             /\ sessions' = [sessions EXCEPT ![g] = r.session]
             /\ lastResult' = Result("rollD6", r.success, FALSE)
             /\ UNCHANGED <<request, rollResult>>

\* the cards rolled for: two of the samples and one no board holds
StubbedRollD6 ==
    \E g \in GameIds, id \in {101, 102, 1}, roll \in StubbedRolls :
        StubbedRollD6Call(g, id, roll)

StubbedNext == ArrayStartGame \/ StubbedRollD6

\* startGame and rolls whose die may show a value beyond 6
SpecStubbedDie == Init /\ [][StubbedNext]_vars

----------------------------------------------------------------------------
(* Trends over historical metrics *)

\* the most historical samples calculateTrends is given
MaxSamples == 7

\* the velocityPerTurn arrays of the samples: one or two turns, with means
\* that meet the two thresholds exactly (9, 10, 11) and pass them
SampleVelocities == {<<9>>, <<10>>, <<11>>, <<10, 14>>}

TrendsInit ==
    /\ sessions = <<>>
    /\ lastResult = NoResult
    /\ \E n \in 0..MaxSamples :
          \E velocities \in [1..n -> SampleVelocities] :
             request = [historicalMetrics |->
                           [i \in 1..n |-> [velocityPerTurn |-> velocities[i]]]]
    /\ rollResult = NoRoll

\* MetricsService.calculateTrends(historicalMetrics)
CalculateTrends ==
    /\ lastResult' = [op |-> "calculateTrends", ok |-> TRUE, threw |-> FALSE,
                      trends |-> calculateTrends(request.historicalMetrics)]
    /\ UNCHANGED <<sessions, request, rollResult>>

TrendsNext == CalculateTrends

\* trends asked for every list of up to MaxSamples samples
SpecTrends == TrendsInit /\ [][TrendsNext]_vars

----------------------------------------------------------------------------
(* Cards as callers hand them to the store *)

\* the stage a card handed to addCard names in its own fields: the stage it
\* is added to, or the stage it was built for (the samples name Funnel)
NamedStages(column) == {column, "Funnel"}

\* GameStateStore.addCard(g, column, card): column and card are separate
\* arguments, the card is stored as it is given
CardsAddCard ==
    \E g \in GameIds, column \in BoardColumn, id \in CardIds :
        \E named \in NamedStages(column) :
            /\ g \in DOMAIN sessions => id \notin CardsOn(sessions[g].columns)
            /\ AddCardCall(g, column, NewCard(id, EffortOf(id), named))

CardsNext == CreateGame \/ CardsAddCard \/ MoveCard \/ RollD6

\* createGame, then cards added as given, moved and rolled
SpecCards == Init /\ [][CardsNext]_vars

----------------------------------------------------------------------------
(* Properties *)

\* the places (stage, sequence, position) where a board holds card id
Places(columns, id) ==
    UNION { {<<c, "slots", i>> : i \in {j \in 1..Len(columns[c].slots) :
                                          columns[c].slots[j].id = id}}
            \cup {<<c, "queue", i>> : i \in {j \in 1..Len(columns[c].queue) :
                                              columns[c].queue[j].id = id}}
            \cup {<<c, "items", i>> : i \in {j \in 1..Len(columns[c].items) :
                                              columns[c].items[j].id = id}} :
            c \in BoardColumn }

\* C1: in every state reached by createGame, addCard, moveCard, removeCard and
\* rollD6, the slots of every stage hold at most wipLimit cards.
WipLimitRespected ==
    \A g \in DOMAIN sessions : \A c \in BoardColumn :
        Len(sessions[g].columns[c].slots) <= sessions[g].columns[c].wipLimit

\* a stage whose slots are full and whose overflow went to its queue
WipLimitReached ==
    \E g \in DOMAIN sessions : \E c \in BoardColumn :
        /\ Len(sessions[g].columns[c].slots) = sessions[g].columns[c].wipLimit
        /\ sessions[g].columns[c].queue # <<>>

\* C2: a card the board holds in exactly one place is still held in exactly
\* one place after every moveCard and every rollD6, whatever the call returned.
CardHeldOnce ==
    [][ \A g \in DOMAIN sessions : \A id \in AllCardIds :
          ( /\ Cardinality(Places(sessions[g].columns, id)) = 1
            /\ lastResult'.op \in {"moveCard", "rollD6"} )
          => Cardinality(Places(sessions'[g].columns, id)) = 1 ]_vars

\* C3: a moveCard to another stage, or a removeCard, that takes a card out of
\* full slots of a stage with a non-empty queue moves the head of the queue
\* into the freed slot: same slots length, queue one shorter.
PromotionOnRemoval ==
    [][ \A g \in DOMAIN sessions : \A id \in CardIds : \A fromColumn \in BoardColumn :
          LET before == sessions[g].columns[fromColumn]
              after == sessions'[g].columns[fromColumn]
          IN  ( /\ FindIndex(before.slots, id) # 0 - 1
                /\ Len(before.slots) = before.wipLimit
                /\ before.queue # <<>>
                /\ \/ RemoveCardCall(g, id)
                   \/ \E toColumn \in BoardColumn \ {fromColumn} :
                         MoveCardCall(g, id, fromColumn, toColumn) )
              => /\ Len(after.slots) = Len(before.slots)
                 /\ Len(after.queue) = Len(before.queue) - 1
                 /\ after.slots[Len(after.slots)] = Head(before.queue) ]_vars

\* C4: die 1 gives destination Production, no revert, the card's effort and no
\* mitigation, for every stage, card and pool.
CriticalSuccessOutcome ==
    rollResult.rollValue = 1 =>
        /\ rollResult.destinationColumn = "Production"
        /\ rollResult.cardMovement.to = "Production"
        /\ rollResult.cardMovement.causesRevert = FALSE
        /\ rollResult.cardMovement.effortApplied = request.card.effort
        /\ rollResult.canMitigation = FALSE

\* die 1 rolled for a 5-point card in Funnel with no token left
CriticalSuccessFromFunnel ==
    /\ rollResult.rollValue = 1
    /\ request.currentColumn = "Funnel"
    /\ request.card.effort = 5
    /\ request.scrumMasterState.tokensAvailable = 0

\* C5: dice 2 and 3 give the stage right after the current one, Production
\* staying in Production; no revert, the card's effort, no mitigation.
StandardProgressOutcome ==
    rollResult.rollValue \in {2, 3} =>
        /\ \E i \in 1..Len(BOARD_COLUMNS) :
              /\ BOARD_COLUMNS[i] = request.currentColumn
              /\ rollResult.destinationColumn =
                    BOARD_COLUMNS[IF i = Len(BOARD_COLUMNS) THEN i ELSE i + 1]
        /\ rollResult.cardMovement.to = rollResult.destinationColumn
        /\ rollResult.cardMovement.causesRevert = FALSE
        /\ rollResult.cardMovement.effortApplied = request.card.effort
        /\ rollResult.canMitigation = FALSE

\* die 3 rolled for a card already in Production
StandardProgressInProduction ==
    /\ rollResult.rollValue = 3
    /\ request.currentColumn = "Production"
    /\ rollResult.destinationColumn = "Production"

\* C6: die 4 gives destination ProductBacklog, a revert, effort 0 and no
\* mitigation, for every stage and pool.
ScopeCreepOutcome ==
    rollResult.rollValue = 4 =>
        /\ rollResult.destinationColumn = "ProductBacklog"
        /\ rollResult.cardMovement.to = "ProductBacklog"
        /\ rollResult.cardMovement.causesRevert = TRUE
        /\ rollResult.cardMovement.effortApplied = 0
        /\ rollResult.canMitigation = FALSE

\* die 4 rolled for a card in PreDeployment with every token available
ScopeCreepFromPreDeployment ==
    /\ rollResult.rollValue = 4
    /\ request.currentColumn = "PreDeployment"
    /\ request.scrumMasterState.tokensAvailable = 3

\* C7 as stated: die 5 reverts with effort 0; with no token the destination is
\* Implementation and mitigation is off; with a token the destination is
\* previous(current stage) of the column topology and mitigation is on.
TechnicalImpedimentToPrevious ==
    rollResult.rollValue = 5 =>
        /\ rollResult.cardMovement.causesRevert = TRUE
        /\ rollResult.cardMovement.effortApplied = 0
        /\ request.scrumMasterState.tokensAvailable = 0 =>
              /\ rollResult.destinationColumn = "Implementation"
              /\ rollResult.canMitigation = FALSE
        /\ request.scrumMasterState.tokensAvailable >= 1 =>
              /\ rollResult.destinationColumn =
                    BoardService_getPreviousColumn(request.currentColumn)
              /\ rollResult.canMitigation = TRUE

\* C7 amended: as above, but with a token a card in Funnel, which has no
\* previous stage, stays in Funnel.
TechnicalImpedimentOutcome ==
    rollResult.rollValue = 5 =>
        /\ rollResult.cardMovement.causesRevert = TRUE
        /\ rollResult.cardMovement.effortApplied = 0
        /\ rollResult.cardMovement.to = rollResult.destinationColumn
        /\ request.scrumMasterState.tokensAvailable = 0 =>
              /\ rollResult.destinationColumn = "Implementation"
              /\ rollResult.canMitigation = FALSE
        /\ request.scrumMasterState.tokensAvailable >= 1 =>
              /\ \E i \in 1..Len(BOARD_COLUMNS) :
                    /\ BOARD_COLUMNS[i] = request.currentColumn
                    /\ rollResult.destinationColumn =
                          BOARD_COLUMNS[IF i = 1 THEN 1 ELSE i - 1]
              /\ rollResult.canMitigation = TRUE

\* die 5 rolled, a token available, for a card in Funnel
TechnicalImpedimentInFunnel ==
    /\ rollResult.rollValue = 5
    /\ request.currentColumn = "Funnel"
    /\ request.scrumMasterState.tokensAvailable >= 1
    /\ rollResult.destinationColumn = "Funnel"

\* C8: die 6 gives Implementation when the technical-debt bonus is active (the
\* flag set with a positive expiry turn) and SprintBacklog otherwise; it
\* reverts with effort 0 and is never mitigable, whatever tokensAvailable is.
CriticalFailureOutcome ==
    rollResult.rollValue = 6 =>
        /\ rollResult.destinationColumn =
              IF /\ request.scrumMasterState.technicalDebtActive
                 /\ request.scrumMasterState.technicalDebtExpiresAtTurn > 0
              THEN "Implementation" ELSE "SprintBacklog"
        /\ rollResult.cardMovement.to = rollResult.destinationColumn
        /\ rollResult.cardMovement.causesRevert = TRUE
        /\ rollResult.cardMovement.effortApplied = 0
        /\ rollResult.canMitigation = FALSE

\* die 6 rolled with the bonus active and every token available
CriticalFailureWithBonus ==
    /\ rollResult.rollValue = 6
    /\ request.scrumMasterState.technicalDebtActive
    /\ request.scrumMasterState.technicalDebtExpiresAtTurn > 0
    /\ request.scrumMasterState.tokensAvailable = 3
    /\ rollResult.destinationColumn = "Implementation"

\* C9: DiceService.rollD6 leaves the card and the pool of its request as they
\* were, for every die value.
RollLeavesCardAndPool ==
    [][ /\ request'.card = request.card
        /\ request'.scrumMasterState = request.scrumMasterState ]_vars

\* a mitigable outcome has been reported and the single token is still there
MitigableRollKeptToken ==
    /\ rollResult.rollValue = 5
    /\ rollResult.canMitigation = TRUE
    /\ request.scrumMasterState.tokensAvailable = 1
    /\ request.scrumMasterState.tokensUsed = 2

HeldCards(columns) ==
    UNION { {columns[c].slots[i] : i \in 1..Len(columns[c].slots)}
            \cup {columns[c].queue[i] : i \in 1..Len(columns[c].queue)}
            \cup {columns[c].items[i] : i \in 1..Len(columns[c].items)} :
            c \in BoardColumn }

\* the record of card id as the board stores it
StoredCard(columns, id) == CHOOSE card \in HeldCards(columns) : card.id = id

\* the stages that hold card id
StagesOf(columns, id) == {p[1] : p \in Places(columns, id)}

\* C11: a successful rollD6 whose outcome reverts adds exactly 1 to the
\* revertCount of the stored card, and one whose outcome does not revert
\* leaves it as it was.
RevertCounted ==
    [][ \A g \in DOMAIN sessions : \A id \in SampleCardIds : \A roll \in generateRoll :
          ( /\ id \in CardsOn(sessions[g].columns)
            /\ ArrayRollD6Call(g, id, roll)
            /\ lastResult'.ok )
          => StoredCard(sessions'[g].columns, id).revertCount
                = StoredCard(sessions[g].columns, id).revertCount
                  + (IF rollResult'.cardMovement.causesRevert THEN 1 ELSE 0) ]_vars

\* C12: the stored cycleTime of a card is null while the card has not been in
\* Production, is non-null from the step in which the card arrives in
\* Production, and never changes once it is non-null.
CycleTimeFixedOnArrival ==
    [][ \A g \in DOMAIN sessions : \A id \in SampleCardIds :
          id \in CardsOn(sessions[g].columns) /\ id \in CardsOn(sessions'[g].columns)
          => LET before == StoredCard(sessions[g].columns, id)
                 after == StoredCard(sessions'[g].columns, id)
                 arrived == "Production" \in StagesOf(sessions'[g].columns, id)
             IN  /\ before.cycleTime # NullCycleTime => after.cycleTime = before.cycleTime
                 /\ arrived => after.cycleTime # NullCycleTime
                 /\ (before.cycleTime = NullCycleTime /\ ~arrived)
                       => after.cycleTime = NullCycleTime ]_vars

\* position of a session's phase in the phase order, from 0
PhaseIndex(session) == IndexOf(phases, session.currentPhase)

\* C13: advancePhase moves the phase one step forward and reports success,
\* except in Retrospective, where it reports not-advanced and leaves the phase;
\* no operation moves the phase back or round to an earlier phase.
PhaseStrictlyForward ==
    [][ \A g \in DOMAIN sessions :
          /\ AdvancePhaseCall(g) =>
                IF sessions[g].currentPhase = "Retrospective"
                THEN /\ ~lastResult'.ok
                     /\ sessions'[g].currentPhase = "Retrospective"
                ELSE /\ lastResult'.ok
                     /\ PhaseIndex(sessions'[g]) = PhaseIndex(sessions[g]) + 1
          /\ PhaseIndex(sessions'[g]) >= PhaseIndex(sessions[g])
          /\ lastResult'.op # "advancePhase" =>
                sessions'[g].currentPhase = sessions[g].currentPhase ]_vars

\* a fourth advancePhase has just been refused in Retrospective
FourthAdvanceRefused ==
    \E g \in DOMAIN sessions :
        /\ sessions[g].currentPhase = "Retrospective"
        /\ lastResult = Result("advancePhase", FALSE, FALSE)

\* C14: advanceTurn on a stored session adds exactly 1 to currentTurn, in every
\* phase and beyond maxTurns, and leaves phase, board and pool as they were;
\* currentTurn starts at 1 and no operation decreases it.
TurnAdvancesByOne ==
    [][ /\ \A g \in DOMAIN sessions' \ DOMAIN sessions : sessions'[g].currentTurn = 1
        /\ \A g \in DOMAIN sessions :
              /\ AdvanceTurnCall(g) =>
                    /\ lastResult'.ok
                    /\ sessions'[g].currentTurn = sessions[g].currentTurn + 1
                    /\ sessions'[g].currentPhase = sessions[g].currentPhase
                    /\ sessions'[g].columns = sessions[g].columns
                    /\ sessions'[g].scrumMasterState = sessions[g].scrumMasterState
              /\ sessions'[g].currentTurn >= sessions[g].currentTurn ]_vars

\* advanceTurn has just taken a session in SprintReview past its maxTurns
TurnPastMaxTurns ==
    \E g \in DOMAIN sessions :
        /\ lastResult = Result("advanceTurn", TRUE, FALSE)
        /\ sessions[g].currentTurn > sessions[g].maxTurns
        /\ sessions[g].currentPhase = "SprintReview"

\* C15: once endGame has made a session inactive, every rollD6, advancePhase
\* and advanceTurn on it fails and leaves the session as it was.
EndedSessionRejects ==
    [][ \A g \in DOMAIN sessions :
          ( /\ ~sessions[g].isActive
            /\ lastResult'.op \in {"rollD6", "advancePhase", "advanceTurn"} )
          => /\ ~lastResult'.ok
             /\ sessions'[g] = sessions[g] ]_vars

\* C18: in a whole game the pool keeps 0 <= tokensAvailable <= tokensTotal,
\* tokensTotal never changes and tokensAvailable never increases.
TokensBounded ==
    [][ \A g \in DOMAIN sessions' :
          LET pool == sessions'[g].scrumMasterState
          IN  /\ 0 <= pool.tokensAvailable
              /\ pool.tokensAvailable <= pool.tokensTotal
              /\ g \in DOMAIN sessions =>
                    /\ pool.tokensTotal = sessions[g].scrumMasterState.tokensTotal
                    /\ pool.tokensAvailable
                          <= sessions[g].scrumMasterState.tokensAvailable ]_vars

\* a game that was rolled, advanced to its last phase and turn and ended
PlayedToTheEnd ==
    \E g \in DOMAIN sessions :
        /\ ~sessions[g].isActive
        /\ sessions[g].currentPhase = "Retrospective"
        /\ sessions[g].currentTurn = MaxTurn
        /\ StagesOf(sessions[g].columns, 101) = {"Implementation"}
        /\ StagesOf(sessions[g].columns, 102) = {"Production"}
        /\ sessions[g].scrumMasterState.tokensAvailable = 3

\* C16: rollD6 for a session id that is not stored, or for a card id no stage
\* of the session holds, returns a failure without throwing and leaves every
\* session as it was.
FailedLookupLeavesState ==
    /\ [](\A g \in DOMAIN sessions :
             \A id \in AllCardIds \ CardsOn(sessions[g].columns) :
                \A roll \in generateRoll :
                   LET r == arrayServiceRollD6(sessions[g], id, roll)
                   IN  ~r.success /\ r.session = sessions[g])
    /\ [][ ( \E g \in CallerGameIds \ DOMAIN sessions :
                \E id \in AllCardIds : \E roll \in generateRoll :
                   ArrayRollD6Call(g, id, roll) )
            => /\ lastResult' = Result("rollD6", FALSE, FALSE)
               /\ sessions' = sessions ]_vars

\* a roll has just failed although a session is stored and holds its three
\* cards: the session id or the card id of the call was unknown
UnknownIdRefused ==
    /\ lastResult = Result("rollD6", FALSE, FALSE)
    /\ \E g \in DOMAIN sessions : SampleCardIds \subseteq CardsOn(sessions[g].columns)

\* the request gameService.rollD6 builds for a card the board holds
RequestFor(session, id) ==
    LET card == StoredCard(session.columns, id)
    IN  [cardId |-> id, currentColumn |-> card.currentColumn, card |-> card,
         scrumMasterState |-> session.scrumMasterState]

\* C17: a rollD6 whose destination stage capacity validation rejects for the
\* card (a limited stage, occupied effort plus the card's effort above the
\* limit) fails and leaves the board as it was.
CapacityRejectedRollFails ==
    [][ \A g \in DOMAIN sessions : \A id \in SampleCardIds : \A roll \in generateRoll :
          ( /\ id \in CardsOn(sessions[g].columns)
            /\ ArrayRollD6Call(g, id, roll)
            /\ ~checkColumnCapacity(
                   resolveRoll(roll, RequestFor(sessions[g], id)).destinationColumn,
                   StoredCard(sessions[g].columns, id),
                   sessions[g].columns).isValid )
          => /\ ~lastResult'.ok
             /\ sessions'[g].columns = sessions[g].columns ]_vars

\* C19: whatever rolls a session has seen, tokensAvailable and tokensUsed have
\* the values createGame gave them.
PoolUntouchedByRolls ==
    \A g \in DOMAIN sessions :
        /\ sessions[g].scrumMasterState.tokensAvailable = 3
        /\ sessions[g].scrumMasterState.tokensUsed = 0

\* a die-5 roll reporting canMitigation has just moved a card from Testing
\* back to Integration
MitigableRollDone ==
    /\ lastResult = Result("rollD6", TRUE, FALSE)
    /\ rollResult.rollValue = 5
    /\ rollResult.canMitigation
    /\ rollResult.cardMovement.from = "Testing"
    /\ rollResult.destinationColumn = "Integration"
    /\ \E g \in DOMAIN sessions :
          StagesOf(sessions[g].columns, request.cardId) = {"Integration"}

\* C20: while technicalDebtActive is set with a positive expiry turn, every
\* die-6 roll sends its card to Implementation, at every currentTurn, and no
\* step (advanceTurn included) ends the bonus.
BonusNeverExpires ==
    [][ \A g \in DOMAIN sessions :
          ( /\ sessions[g].scrumMasterState.technicalDebtActive
            /\ sessions[g].scrumMasterState.technicalDebtExpiresAtTurn > 0 )
          => /\ sessions'[g].scrumMasterState.technicalDebtActive
             /\ sessions'[g].scrumMasterState.technicalDebtExpiresAtTurn > 0
             /\ \A id \in SampleCardIds :
                   ArrayRollD6Call(g, id, 6) =>
                      /\ lastResult'.ok
                      /\ rollResult'.destinationColumn = "Implementation"
                      /\ StagesOf(sessions'[g].columns, id) = {"Implementation"} ]_vars

\* a die-6 roll has just sent a card to Implementation in a turn after the
\* expiry turn of the bonus
BonusUsedAfterExpiry ==
    \E g \in DOMAIN sessions :
        /\ lastResult = Result("rollD6", TRUE, FALSE)
        /\ rollResult.rollValue = 6
        /\ rollResult.destinationColumn = "Implementation"
        /\ sessions[g].scrumMasterState.technicalDebtActive
        /\ sessions[g].currentTurn > sessions[g].scrumMasterState.technicalDebtExpiresAtTurn

StartGameGivesEmptyBoard ==
    [][ \A g \in SessionIds \ DOMAIN sessions : \A players \in SuppliedPlayers :
          StartGameCall(g, players)
          => /\ lastResult'.ok
             /\ g \in DOMAIN sessions'
             /\ sessions'[g].isActive
             /\ sessions'[g].currentTurn = 1
             /\ sessions'[g].currentPhase = "SprintPlanning"
             /\ sessions'[g].scrumMasterState = InitialScrumMasterState
             /\ players = {} =>
                   /\ Len(sessions'[g].players) = 8
                   /\ Cardinality({sessions'[g].players[i].role : i \in 1..8}) = 8
             /\ CardsOn(sessions'[g].columns) = {} ]_vars

\* C24: an operation addressed to one session (rollD6, advancePhase,
\* advanceTurn, moveCard, addCard, updateScrumMasterState, endGame), and a
\* startGame, leaves every other stored session stored and exactly as it was.
OtherSessionsUntouched ==
    [][ \A a \in SessionIds :
          ( \/ \E players \in SuppliedPlayers :
                  a \notin DOMAIN sessions /\ StartGameCall(a, players)
            \/ PlayRollD6Call(a, 101, 1)
            \/ AdvancePhaseCall(a)
            \/ AdvanceTurnCall(a)
            \/ \E fromColumn \in SessionStages, toColumn \in SessionStages :
                  ArrayMoveCardCall(a, 1, fromColumn, toColumn)
            \/ ArrayAddCardCall(a, "ProductBacklog", NewCard(1, EffortOf(1), "ProductBacklog"))
            \/ ActivateTechnicalDebtCall(a)
            \/ EndGameCall(a) )
          => \A b \in DOMAIN sessions \ {a} :
                /\ b \in DOMAIN sessions'
                /\ sessions'[b] = sessions[b] ]_vars

\* the first session has just been ended in its second turn, a card rolled
\* into Production, while the second session is stored and still active
EndedBesideActiveSession ==
    /\ DOMAIN sessions = SessionIds
    /\ lastResult = Result("endGame", TRUE, FALSE)
    /\ ~sessions["g1"].isActive
    /\ sessions["g1"].currentTurn = 2
    /\ StagesOf(sessions["g1"].columns, 101) = {"Production"}
    /\ StagesOf(sessions["g2"].columns, 101) = {"Production"}
    /\ sessions["g2"].isActive

\* the sum of the effort of a set of card records
RECURSIVE EffortOver(_)
EffortOver(cards) ==
    IF cards = {}
    THEN 0
    ELSE LET card == CHOOSE c \in cards : TRUE
         IN  card.effort + EffortOver(cards \ {card})

\* getMetrics has just succeeded for session g
MetricsGivenFor(g) ==
    /\ g \in DOMAIN sessions
    /\ lastResult.op = "getMetrics"
    /\ lastResult.ok
    /\ lastResult.gameId = g

VelocityCountsEveryCard ==
    \A g \in GameIds :
        MetricsGivenFor(g)
        => LET velocity == lastResult.metrics.current.velocityPerTurn
           IN  /\ Len(velocity) = sessions[g].currentTurn
               /\ \A t \in 1..sessions[g].currentTurn :
                     velocity[t] = EffortOver({card \in HeldCards(sessions[g].columns) :
                                                 card.cycleTime = {t}})

\* C27: accumulatedScore is the sum of the effort of exactly the cards that
\* are in Production.
ScoreIsProductionEffort ==
    \A g \in GameIds :
        MetricsGivenFor(g)
        => lastResult.metrics.current.accumulatedScore
              = EffortOver({card \in HeldCards(sessions[g].columns) :
                              card.currentColumn = "Production"})

\* metrics have just been given for a board with card 1 in Production and
\* card 2 in Testing: the score is the effort of card 1
ScoreOfOneCard ==
    \E g \in GameIds :
        /\ MetricsGivenFor(g)
        /\ StagesOf(sessions[g].columns, 1) = {"Production"}
        /\ StagesOf(sessions[g].columns, 2) = {"Testing"}
        /\ lastResult.metrics.current.accumulatedScore = EffortOf(1)

\* the reason recorded for a reverting die value
RevertReason(roll) ==
    CASE roll = 4 -> "ScopeCreep"
      [] roll = 5 -> "TechnicalImpediment"
      [] roll = 6 -> "CriticalFailure"

\* C28: a successful rollD6 whose outcome reverts appends one event to the
\* session's revert events, with the turn, the card, the stage it left, the
\* stage it went to and the reason; and the revert events the metrics report
\* are the recorded ones.
RevertEventRecorded ==
    [][ \A g \in DOMAIN sessions :
          ( /\ lastResult' = Result("rollD6", TRUE, FALSE)
            /\ rollResult'.cardMovement.causesRevert )
          => /\ sessions'[g].revertEvents =
                   Append(sessions[g].revertEvents,
                          [turn |-> sessions[g].currentTurn,
                           cardId |-> request'.cardId,
                           from |-> rollResult'.cardMovement.from,
                           to |-> rollResult'.cardMovement.to,
                           reason |-> RevertReason(rollResult'.rollValue),
                           effortLost |-> 0])
             /\ calculateRevertEvents(getAllCards(sessions'[g].columns))
                   = sessions'[g].revertEvents ]_vars

\* C29: checkColumnCapacity is valid for every stage without a finite limit,
\* and for a stage with a finite limit it is valid exactly when the effort of
\* the cards in the stage plus the effort of the card is at most the limit:
\* occupancy is counted in effort points.
CapacityCountsEffort ==
    \A g \in DOMAIN sessions :
        lastResult.op = "checkColumnCapacity"
        => LET held == {card \in HeldCards(sessions[g].columns) :
                          card.currentColumn = lastResult.column}
               limit == COLUMN_CAPACITIES[lastResult.column]
           IN  /\ ~lastResult.threw
               /\ limit = {} => lastResult.ok
               /\ \A n \in limit :
                     lastResult.ok <=> EffortOver(held) + lastResult.effort <= n

\* a card of effort 3 has just been accepted for a Testing stage that holds
\* 5 effort points in one card (8 of 8), and would not fit with one point more
ExactFitAccepted ==
    \E g \in DOMAIN sessions :
        /\ lastResult = CapacityResult("Testing", 3, TRUE, FALSE)
        /\ Len(sessions[g].columns["Testing"].items) = 1
        /\ sessions[g].columns["Testing"].items[1].effort = 5

\* the ids of a sequence of cards, in order
IdsOf(cards) == [i \in 1..Len(cards) |-> cards[i].id]

\* stage columnState without card id
WithoutCard(columnState, id) ==
    [columnState EXCEPT
        !.slots = SelectSeq(@, LAMBDA card : card.id # id),
        !.queue = SelectSeq(@, LAMBDA card : card.id # id)]

\* card id has been placed on stage before, giving stage after: at the end of
\* the slots when they were below the wipLimit, else at the tail of the queue,
\* the cards that were there keeping their places
PlacedOn(before, after, id) ==
    IF Len(before.slots) < before.wipLimit
    THEN /\ IdsOf(after.slots) = Append(IdsOf(before.slots), id)
         /\ IdsOf(after.queue) = IdsOf(before.queue)
    ELSE /\ IdsOf(after.slots) = IdsOf(before.slots)
         /\ IdsOf(after.queue) = Append(IdsOf(before.queue), id)

RevertNeverAdvances ==
    rollResult.cardMovement.causesRevert
    => IndexOf(BOARD_COLUMNS, rollResult.destinationColumn)
          <= IndexOf(BOARD_COLUMNS, request.currentColumn)


\* the place of a stage on the board, Funnel being 1 and Production 8
Position(column) == CHOOSE i \in 1..Len(BOARD_COLUMNS) : BOARD_COLUMNS[i] = column

\* C32: over the 8 stages, getNextColumn gives the adjacent later stage and
\* none for Production; getPreviousColumn the adjacent earlier stage and none
\* for Funnel; getPreviousColumns(stage, k) exactly min(k, index of stage)
\* stages, nearest first, never wrapping past Funnel; and
\* previous(next(s)) = s for every stage s but Production.
TopologyContract ==
    /\ lastResult.op = "getNextColumn"
       => lastResult.value = IF lastResult.column = "Production"
                             THEN NoColumn
                             ELSE BOARD_COLUMNS[Position(lastResult.column) + 1]
    /\ lastResult.op = "getPreviousColumn"
       => lastResult.value = IF lastResult.column = "Funnel"
                             THEN NoColumn
                             ELSE BOARD_COLUMNS[Position(lastResult.column) - 1]
    /\ lastResult.op = "getPreviousColumns"
       => LET earlier == Position(lastResult.column) - 1
              n == IF lastResult.steps < earlier THEN lastResult.steps ELSE earlier
          IN  /\ Len(lastResult.value) = n
              /\ \A i \in 1..n :
                    lastResult.value[i] = BOARD_COLUMNS[Position(lastResult.column) - i]
    /\ \A s \in BoardColumn \ {"Production"} :
          BoardService_getPreviousColumn(BoardService_getNextColumn(s)) = s

\* getPreviousColumns has just been asked for 5 stages before SprintBacklog
\* and answered with the two there are
PreviousColumnsTruncated ==
    lastResult = TopologyResult("getPreviousColumns", "SprintBacklog", 5,
                                <<"ProductBacklog", "Funnel">>)


\* C33: validateCardExists(cardId, state) is valid exactly when some stage of
\* the board holds a card with that id in its slots or in its queue, and
\* findCardById returns a card exactly when validateCardExists is valid.
CardLookupFindsHeldCards ==
    \A g \in DOMAIN sessions : \A id \in AllCardIds :
        LET validation == validateCardExists(id, sessions[g].columns)
            located == findCardById(id, sessions[g].columns)
        IN  /\ ~validation.threw
            /\ validation.isValid
                  <=> \E c \in BoardColumn :
                         \/ \E i \in 1..Len(sessions[g].columns[c].slots) :
                               sessions[g].columns[c].slots[i].id = id
                         \/ \E i \in 1..Len(sessions[g].columns[c].queue) :
                               sessions[g].columns[c].queue[i].id = id
            /\ ~located.threw
            /\ located.card # <<>> <=> validation.isValid


\* C34: after endGame the session stays stored with isActive false: getGame
\* returns it, getActiveGames does not list it, no operation but clearAll
\* removes a session or makes an ended one active again, and a second endGame
\* on it succeeds and changes nothing.
EndedSessionRetained ==
    /\ []( /\ lastResult.op = "getGame" /\ lastResult.gameId \in DOMAIN sessions
              => /\ lastResult.ok
                 /\ lastResult.isActive = sessions[lastResult.gameId].isActive
           /\ lastResult.op = "getActiveGames"
              => \A g \in DOMAIN sessions :
                    (\E i \in 1..Len(lastResult.games) : lastResult.games[i] = g)
                       <=> sessions[g].isActive )
    /\ [][ \A g \in DOMAIN sessions :
             /\ lastResult'.op # "clearAll"
                => /\ g \in DOMAIN sessions'
                   /\ ~sessions[g].isActive => ~sessions'[g].isActive
             /\ lastResult'.op = "endGame"
                => /\ g \in DOMAIN sessions'
                   /\ ~sessions[g].isActive => sessions'[g] = sessions[g]
             /\ EndGameCall(g)
                => /\ lastResult'.ok
                   /\ ~sessions'[g].isActive ]_vars

\* getGame has just returned the ended session g1, and it is not active,
\* while a second session is stored and active
EndedSessionLookedUp ==
    /\ lastResult.op = "getGame"
    /\ lastResult.gameId = "g1"
    /\ lastResult.ok
    /\ ~lastResult.isActive
    /\ "g2" \in DOMAIN sessions
    /\ ~sessions["g1"].isActive
    /\ sessions["g2"].isActive

\* C39: getCurrentGame returns null exactly when no stored session is active,
\* and otherwise an active session whose creation time is the greatest among
\* the active ones; it never returns an ended session.
CurrentGameIsNewestActive ==
    lastResult.op = "getCurrentGame"
    => /\ ~lastResult.ok <=> \A g \in DOMAIN sessions : ~sessions[g].isActive
       /\ ~lastResult.ok <=> lastResult.gameId = NoGame
       /\ lastResult.ok
          => /\ lastResult.gameId \in DOMAIN sessions
             /\ sessions[lastResult.gameId].isActive
             /\ \A g \in DOMAIN sessions :
                   sessions[g].isActive
                   => sessions[g].createdAt <= sessions[lastResult.gameId].createdAt

\* getCurrentGame has just returned g1, created at 1, the newest session g2,
\* created at 2, being ended
OlderGameAfterNewestEnded ==
    /\ lastResult.op = "getCurrentGame"
    /\ lastResult.gameId = "g1"
    /\ DOMAIN sessions = {"g1", "g2"}
    /\ sessions["g1"].createdAt = 1
    /\ sessions["g2"].createdAt = 2
    /\ ~sessions["g2"].isActive


RECURSIVE WindowSum(_, _)
WindowSum(samples, idx) ==
    IF idx = {}
    THEN 0
    ELSE LET i == CHOOSE j \in idx : TRUE
             v == samples[i].velocityPerTurn
         IN  (IF Len(v) = 2 THEN v[1] + v[2] ELSE v[1]) + WindowSum(samples, idx \ {i})

RECURSIVE WindowCount(_, _)
WindowCount(samples, idx) ==
    IF idx = {}
    THEN 0
    ELSE LET i == CHOOSE j \in idx : TRUE
         IN  Len(samples[i].velocityPerTurn) + WindowCount(samples, idx \ {i})

\* C36: the velocity trend is stable for fewer than 2 samples; otherwise it
\* is increasing when the mean velocity of the recent window (the last three
\* samples) is above 1.1 times the mean of the older window (the three before
\* them), decreasing when it is below 0.9 times that mean, and stable
\* otherwise, an empty older window (2 or 3 samples) counting as the recent
\* mean.
TrendFollowsWindows ==
    lastResult.op = "calculateTrends"
    => LET samples == request.historicalMetrics
           n == Len(samples)
           recent == {i \in 1..n : i > n - 3}
           older == {i \in 1..n : i > n - 6 /\ i <= n - 3}
           sumRecent == WindowSum(samples, recent)
           numRecent == WindowCount(samples, recent)
           sumOlder == IF older = {} THEN sumRecent ELSE WindowSum(samples, older)
           numOlder == IF older = {} THEN numRecent ELSE WindowCount(samples, older)
           trend == lastResult.trends.velocityTrend
       IN  /\ n < 2 => trend = "stable"
           /\ n >= 2 =>
                 /\ trend = "increasing"
                       <=> 10 * sumRecent * numOlder > 11 * sumOlder * numRecent
                 /\ trend = "decreasing"
                       <=> /\ ~(10 * sumRecent * numOlder > 11 * sumOlder * numRecent)
                           /\ 10 * sumRecent * numOlder < 9 * sumOlder * numRecent
                 /\ trend \in {"increasing", "decreasing", "stable"}
           /\ n \in {2, 3} => trend = "stable"

\* trends have just been computed for seven samples whose three latest
\* average 11 and whose three before average 10, the oldest sample lying
\* outside both windows: exactly 1.1 times, so stable
TrendAtThreshold ==
    /\ lastResult.op = "calculateTrends"
    /\ Len(request.historicalMetrics) = 7
    /\ request.historicalMetrics[1].velocityPerTurn = <<10, 14>>
    /\ \A i \in 2..4 : request.historicalMetrics[i].velocityPerTurn = <<10>>
    /\ \A i \in 5..7 : request.historicalMetrics[i].velocityPerTurn = <<11>>
    /\ lastResult.trends.velocityTrend = "stable"


\* C37: in every reachable state the currentColumn and the status of every
\* card name the stage whose slots or queue hold it, after any sequence of
\* addCard, moveCard and rollD6.
CardFieldsNameHolder ==
    \A g \in DOMAIN sessions : \A c \in BoardColumn :
        /\ \A i \in 1..Len(sessions[g].columns[c].slots) :
              /\ sessions[g].columns[c].slots[i].currentColumn = c
              /\ sessions[g].columns[c].slots[i].status = c
        /\ \A i \in 1..Len(sessions[g].columns[c].queue) :
              /\ sessions[g].columns[c].queue[i].currentColumn = c
              /\ sessions[g].columns[c].queue[i].status = c


\* C38: in every state reached through startGame and rollD6 the tokens
\* available and the tokens used add up to tokensTotal, and a step that takes
\* n tokens from tokensAvailable adds the same n to tokensUsed.
TokensConserved ==
    /\ [](\A g \in DOMAIN sessions :
             sessions[g].scrumMasterState.tokensAvailable
                + sessions[g].scrumMasterState.tokensUsed
             = sessions[g].scrumMasterState.tokensTotal)
    /\ [][ \A g \in DOMAIN sessions \cap DOMAIN sessions' :
              sessions[g].scrumMasterState.tokensAvailable
                 - sessions'[g].scrumMasterState.tokensAvailable
              = sessions'[g].scrumMasterState.tokensUsed
                 - sessions[g].scrumMasterState.tokensUsed ]_vars

\* a roll whose outcome a token could mitigate has just moved a card from
\* SprintBacklog back to ProductBacklog, and the pool of its session still
\* adds up
PoolAddsUpAfterMitigableRoll ==
    \E g \in DOMAIN sessions :
        /\ lastResult = Result("rollD6", TRUE, FALSE)
        /\ rollResult.rollValue = 5
        /\ rollResult.canMitigation
        /\ rollResult.cardMovement.from = "SprintBacklog"
        /\ StagesOf(sessions[g].columns, request.cardId) = {"ProductBacklog"}
        /\ sessions[g].scrumMasterState.tokensAvailable
              + sessions[g].scrumMasterState.tokensUsed
           = sessions[g].scrumMasterState.tokensTotal

====
